---- MODULE Spec2Model ----
(***************************************************************************)
(* Model of the segmentation / resumable-translation / reassembly pipeline *)
(* of claude_translater: 03_translate_md.py (Translation Invoker and       *)
(* Pipeline Coordinator) and 04_merge_md.py (Merger), over one checkpoint  *)
(* directory.                                                              *)
(*                                                                         *)
(* Text is a sequence of tokens.  The tokens are the pieces the marker     *)
(* strings are made of ("<!--", "-->", "START", "END", " "), the newline,  *)
(* and letters; str.find, str.strip, str.split and slicing are computed on *)
(* these sequences as Python computes them on characters.                  *)
(***************************************************************************)
EXTENDS Integers, Sequences, FiniteSets, TLC

\* ------------------------------------------------------------------ bounds

\* Units in the checkpoint directory (page0001.md ... ).
MaxUnits == 2
\* Coordinator runs (03_translate_md.py main) in one behaviour.
MaxRuns == 2

\* def translate_with_claude_cli(..., max_retries=3)
max_retries == 3

\* ------------------------------------------------------------------ text

SP == " "
NL == "\n"
LT == "<!--"
GT == "-->"

Min(S) == CHOOSE x \in S : \A y \in S : x <= y
Max(S) == CHOOSE x \in S : \A y \in S : x >= y

\* str.find(pat): the lowest 0-based index where pat occurs in t, or -1.
Find(t, pat) ==
    LET hits == {k \in 0..(Len(t) - Len(pat)) :
                    \A j \in 1..Len(pat) : t[k + j] = pat[j]}
    IN  IF hits = {} THEN -1 ELSE Min(hits)

\* pat in t
Contains(t, pat) == Find(t, pat) # -1

\* t[a:b] for 0 <= a (Python clamps b to len(t); a > b gives '').
Slice(t, a, b) == SubSeq(t, a + 1, IF b > Len(t) THEN Len(t) ELSE b)

IsSpace(c) == c \in {SP, NL}

\* str.strip(): leading and trailing whitespace removed.
Strip(t) ==
    LET keep == {k \in 1..Len(t) : ~IsSpace(t[k])}
    IN  IF keep = {} THEN <<>> ELSE SubSeq(t, Min(keep), Max(keep))

\* str.split('\n'): the lines of t (always at least one).
RECURSIVE Split(_)
Split(t) ==
    LET nl == {k \in 1..Len(t) : t[k] = NL}
    IN  IF nl = {} THEN <<t>>
        ELSE <<SubSeq(t, 1, Min(nl) - 1)>> \o Split(SubSeq(t, Min(nl) + 1, Len(t)))

\* '\n'.join(lines)
RECURSIVE Join(_)
Join(lines) ==
    IF Len(lines) = 0 THEN <<>>
    ELSE IF Len(lines) = 1 THEN lines[1]
    ELSE lines[1] \o <<NL>> \o Join(Tail(lines))

\* An optional text: Python's None, or a str.
None == [some |-> FALSE, val |-> <<>>]
Some(t) == [some |-> TRUE, val |-> t]
\* Python truthiness of an optional str: not None and not ''.
Truthy(o) == o.some /\ o.val # <<>>

\* ------------------------------------------------- marker extraction (03)

start_marker == <<LT, SP, "START", SP, GT>>
end_marker == <<LT, SP, "END", SP, GT>>

\* The variation lists of extract_content_between_markers, in the order tried.
start_variation_list ==
    << <<LT, "START", GT>>, <<LT, SP, "START", GT>>,
       <<LT, "START", SP, GT>>, <<LT, SP, "START", GT>> >>
end_variation_list ==
    << <<LT, "END", GT>>, <<LT, SP, "END", GT>>,
       <<LT, "END", SP, GT>>, <<LT, SP, "END", GT>> >>

\* The lists of the emergency extraction.
start_variations ==
    << start_marker, <<LT, "START", GT>>, <<LT, SP, "START", GT>>,
       <<LT, "START", SP, GT>> >>
end_variations ==
    << end_marker, <<LT, "END", GT>>, <<LT, SP, "END", GT>>,
       <<LT, "END", SP, GT>> >>

\* for variation in list: pos = text.find(variation); if pos != -1: break
\* The position and the marker the loop ends with; pos is -1 when none occurs.
FirstVariation(text, list, canonical) ==
    LET found == {n \in 1..Len(list) : Find(text, list[n]) # -1}
    IN  IF found = {} THEN [pos |-> -1, marker |-> canonical]
        ELSE [pos |-> Find(text, list[Min(found)]), marker |-> list[Min(found)]]

\* The start marker's position and form as extract_content_between_markers
\* settles them.
LocateStart(text) ==
    IF Find(text, start_marker) # -1
    THEN [pos |-> Find(text, start_marker), marker |-> start_marker]
    ELSE FirstVariation(text, start_variation_list, start_marker)

LocateEnd(text) ==
    IF Find(text, end_marker) # -1
    THEN [pos |-> Find(text, end_marker), marker |-> end_marker]
    ELSE FirstVariation(text, end_variation_list, end_marker)

\* extract_content_between_markers, skipping the canonical marker's length
\* whatever form was found.
extract_canonical_length(text) ==
    LET s == LocateStart(text)
        e == LocateEnd(text)
    IN  IF s.pos # -1 /\ e.pos # -1 /\ s.pos < e.pos
        THEN Some(Strip(Slice(text, s.pos + Len(start_marker), e.pos)))
        ELSE None

extract_content_between_markers(text) ==
    LET s == LocateStart(text)
        e == LocateEnd(text)
    IN  IF s.pos # -1 /\ e.pos # -1 /\ s.pos < e.pos
        THEN Some(Strip(Slice(text, s.pos + Len(s.marker), e.pos)))
        ELSE None

\* any(marker in line for marker in list)
AnyIn(line, list) == \E n \in 1..Len(list) : Contains(line, list[n])

\* EmergencyExtraction, taking the start marker's line along with the lines
\* after it.
EmergencyExtraction_inclusive(translated_text) ==
    LET lines == Split(translated_text)
        ends == {n \in 1..Len(lines) : AnyIn(lines[n], end_variations)}
        last == IF ends = {} THEN Len(lines) ELSE Min(ends)
        starts == {n \in 1..last : AnyIn(lines[n], start_variations)}
        end_line == IF ends = {} THEN -1 ELSE Min(ends) - 1
        start_line == IF starts = {} THEN -1 ELSE Max(starts) - 1
    IN  IF start_line # -1 /\ end_line # -1 /\ start_line < end_line
        THEN Some(Strip(Join(SubSeq(lines, start_line + 1, end_line))))
        ELSE None

\* The line scan of the emergency extraction, on lines numbered from 0:
\* end_line is the first line holding an end marker (the loop breaks there),
\* start_line the last line up to and including it that holds a start marker.
EmergencyExtraction(translated_text) ==
    LET lines == Split(translated_text)
        ends == {n \in 1..Len(lines) : AnyIn(lines[n], end_variations)}
        last == IF ends = {} THEN Len(lines) ELSE Min(ends)
        starts == {n \in 1..last : AnyIn(lines[n], start_variations)}
        end_line == IF ends = {} THEN -1 ELSE Min(ends) - 1
        start_line == IF starts = {} THEN -1 ELSE Max(starts) - 1
    IN  IF start_line # -1 /\ end_line # -1 /\ start_line < end_line
        THEN Some(Strip(Join(SubSeq(lines, start_line + 2, end_line))))
        ELSE None

\* ParseResponse, returning whatever lies between the markers without the
\* check that it is not empty.
ParseResponse_unvalidated(stdout) ==
    LET extracted_content == extract_content_between_markers(Strip(stdout))
    IN  IF extracted_content.some THEN extracted_content
        ELSE EmergencyExtraction(Strip(stdout))

\* What one attempt makes of an output of the capability that exited 0:
\* the text it returns, or None when the attempt is to be retried.
ParseResponse(stdout) ==
    LET translated_text == Strip(stdout)
        extracted_content == extract_content_between_markers(translated_text)
        has_start == AnyIn(translated_text, start_variations)
        has_end == AnyIn(translated_text, end_variations)
        emergency_content == EmergencyExtraction(translated_text)
    IN  IF Truthy(extracted_content) /\ Len(Strip(extracted_content.val)) > 0
        THEN extracted_content
        ELSE IF has_start /\ has_end /\ Truthy(emergency_content)
        THEN emergency_content
        ELSE None

\* ------------------------------------------------------- checkpoint store

\* A file of the checkpoint directory: absent, or present with its content.
NoFile == [exists |-> FALSE, content |-> <<>>]
File(c) == [exists |-> TRUE, content |-> c]

\* What an interrupted f.write(c) can leave in a file that open(..., 'w')
\* has created: a proper prefix of c (nothing, when c is empty).
Truncations(c) == {SubSeq(c, 1, n) : n \in 0..(IF Len(c) = 0 THEN 0 ELSE Len(c) - 1)}

\* How writing a file can go: written whole, open() raises (the file is not
\* touched), or the write raises after open() has created the file.
WriteOutcomes == {"ok", "open_fails", "write_fails"}

\* The NNNN of page{i:04d}.md, as its digits: four of them, or five from
\* 10000 on (the format pads, it does not cut).
PageDigits(k) ==
    (IF k >= 10000 THEN <<(k \div 10000) % 10>> ELSE <<>>)
        \o <<(k \div 1000) % 10, (k \div 100) % 10, (k \div 10) % 10, k % 10>>

\* int(t) of the digit run of a file name.
RECURSIVE DigitsValue(_)
DigitsValue(d) ==
    IF Len(d) = 0 THEN 0 ELSE 10 * DigitsValue(SubSeq(d, 1, Len(d) - 1)) + d[Len(d)]

\* 'page' + a + '.md' <= 'page' + b + '.md' as Python compares str: the first
\* differing character decides, and '.' sorts before every digit.
StrLeq(a, b) ==
    LET diff == {k \in 1..Len(a) : k > Len(b) \/ a[k] # b[k]}
    IN  IF diff = {} THEN TRUE
        ELSE IF Min(diff) > Len(b) THEN FALSE
        ELSE a[Min(diff)] < b[Min(diff)]

\* md_files.sort() on a list of distinct names.
RECURSIVE SortedFiles(_)
SortedFiles(S) ==
    IF S = {} THEN <<>>
    ELSE LET least == CHOOSE a \in S : \A b \in S : StrLeq(a, b)
         IN  <<least>> \o SortedFiles(S \ {least})

\* The orders in which glob.glob can list the files S.
RECURSIVE Listings(_)
Listings(S) ==
    IF S = {} THEN {<<>>}
    ELSE UNION {{<<a>> \o l : l \in Listings(S \ {a})} : a \in S}

\* -------------------------------------------------- Unit Splitter (02)

\* A run of ten hyphens, as one token.
DASH == "----------"
\* The backquote that delimits inline code, as one token.
BT == "bq"

\* CharWeight, with isalpha() true of the letters a-z alone.
CharWeight_latinOnly(c) ==
    IF c = "zh" THEN 2
    ELSE IF c \in {"a", "b"} THEN 1
    ELSE IF c = "START" THEN 5
    ELSE IF c = "END" THEN 3
    ELSE 0

\* count_characters, per character: a character of U+4E00..U+9FFF ("zh")
\* counts 2; one that isalpha() holds of counts 1, a Latin letter ("a", "b";
\* the tokens START and END are 5 and 3 of them) or a letter of another
\* script ("ya"); anything else 0.
CharWeight(c) ==
    IF c = "zh" THEN 2
    ELSE IF c \in {"a", "b", "ya"} THEN 1
    ELSE IF c = "START" THEN 5
    ELSE IF c = "END" THEN 3
    ELSE 0

RECURSIVE count_characters(_)
count_characters(text) ==
    IF Len(text) = 0 THEN 0
    ELSE CharWeight(Head(text)) + count_characters(Tail(text))

\* re.sub of the inline-code pattern: each backquote is paired with the next one on
\* the same line, and the pair goes with what it encloses.
RECURSIVE RemoveInlineCode(_)
RemoveInlineCode(text) ==
    LET opens == {k \in 1..Len(text) : text[k] = BT}
        p == Min(opens)
        stops == {k \in (p + 1)..Len(text) : text[k] \in {BT, NL}}
        q == Min(stops)
    IN  IF opens = {} THEN text
        ELSE IF stops = {} THEN text
        ELSE IF text[q] = BT
        THEN SubSeq(text, 1, p - 1) \o RemoveInlineCode(SubSeq(text, q + 1, Len(text)))
        ELSE SubSeq(text, 1, q) \o RemoveInlineCode(SubSeq(text, q + 1, Len(text)))

\* The places where three backquotes in a row start.
FenceAt(text, k) ==
    /\ k + 2 <= Len(text)
    /\ text[k] = BT /\ text[k + 1] = BT /\ text[k + 2] = BT

\* re.sub of the code-block pattern (DOTALL): the first run of three
\* backquotes is paired with the next one after it, on whatever line, and
\* the pair goes with what it encloses.
RECURSIVE RemoveCodeBlocks(_)
RemoveCodeBlocks(text) ==
    LET opens == {k \in 1..Len(text) : FenceAt(text, k)}
        p == Min(opens)
        closes == {k \in (p + 3)..Len(text) : FenceAt(text, k)}
        q == Min(closes)
    IN  IF opens = {} THEN text
        ELSE IF closes = {} THEN text
        ELSE SubSeq(text, 1, p - 1)
                 \o RemoveCodeBlocks(SubSeq(text, q + 3, Len(text)))

\* estimate_combined_char_count: markdown syntax is removed, then the
\* characters are counted. The texts of the model hold no bracket, asterisk,
\* underscore or '#', so the other substitutions leave them as they are.
estimate_combined_char_count(text) ==
    count_characters(RemoveInlineCode(RemoveCodeBlocks(text)))

\* A line the pattern ^.*----------.*$ matches.
SeparatorLine(line) == Contains(line, <<DASH>>)

\* The lines of a text, cut at its separator lines: the runs of lines
\* between them (re.split keeps what lies between two matches).
RECURSIVE LineRuns(_)
LineRuns(lines) ==
    LET seps == {k \in 1..Len(lines) : SeparatorLine(lines[k])}
    IN  IF seps = {} THEN <<lines>>
        ELSE <<SubSeq(lines, 1, Min(seps) - 1)>>
                 \o LineRuns(SubSeq(lines, Min(seps) + 1, Len(lines)))

\* [section.strip() for section in sections if section.strip()]
RECURSIVE StripNonEmpty(_)
StripNonEmpty(runs) ==
    IF Len(runs) = 0 THEN <<>>
    ELSE (IF Strip(Join(Head(runs))) = <<>> THEN <<>> ELSE <<Strip(Join(Head(runs)))>>)
             \o StripNonEmpty(Tail(runs))

\* re.split(r'^.*----------.*$', content, flags=re.MULTILINE), stripped and
\* without the empty sections.
SplitSections(content) == StripNonEmpty(LineRuns(Split(content)))

\* -------------------------------------------------- slide texts (pptxtrans)

\* The markers of translate_text_with_claude; TSTART and TEND stand for the
\* words TRANSLATION_START and TRANSLATION_END.
json_start_marker == <<LT, SP, "TSTART", SP, GT>>
json_end_marker == <<LT, SP, "TEND", SP, GT>>

\* One attempt of translate_text_with_claude on a non-blank text: the
\* process ends as ev says; with return code 0 the text between the first
\* start marker and the first end marker is taken, stripped. The result is
\* what the loop does next: return the text, return with the error flag, or
\* go round again.
JsonAttemptResult(ev) ==
    IF ev.kind = "notfound" THEN [do |-> "return", is_error |-> TRUE, text |-> <<>>]
    ELSE IF ev.kind # "exit" \/ ev.returncode # 0
    THEN [do |-> "retry", is_error |-> TRUE, text |-> <<>>]
    ELSE LET translated_text == Strip(ev.stdout)
             start_idx == Find(translated_text, json_start_marker)
             end_idx == Find(translated_text, json_end_marker)
             content_start == start_idx + Len(json_start_marker)
             extracted_content ==
                 Strip(Slice(translated_text, content_start, end_idx))
         IN  IF start_idx # -1 /\ end_idx # -1 /\ extracted_content # <<>>
             THEN [do |-> "return", is_error |-> FALSE, text |-> extracted_content]
             ELSE [do |-> "retry", is_error |-> TRUE, text |-> <<>>]

\* translate_text_with_claude(text, ..., max_retries = 1), as
\* translate_json_texts calls it: one attempt, and the error flag when it
\* did not return a text.
translate_text_with_claude(ev) ==
    LET res == JsonAttemptResult(ev)
    IN  [text |-> res.text, is_error |-> res.is_error]

\* An item of the JSON file.
TextItem(original_text, translated, translated_text) ==
    [original_text |-> original_text, translated |-> translated,
     translated_text |-> translated_text]

\* The cache of translations built from the items as the run starts: a later
\* item replaces an earlier one with the same text.
RECURSIVE BuildCache(_)
BuildCache(items) ==
    IF items = <<>> THEN [o \in {} |-> <<>>]
    ELSE LET before == BuildCache(SubSeq(items, 1, Len(items) - 1))
             item == items[Len(items)]
             original == Strip(item.original_text)
             translated == Strip(item.translated_text)
         IN  IF item.translated /\ original # <<>> /\ translated # <<>>
             THEN [o \in DOMAIN before \cup {original} |->
                      IF o = original THEN translated ELSE before[o]]
             ELSE before

\* ------------------------------------------------------------------ state

VARIABLES
    units,              \* page*.md: name -> content (written by the split stage)
    outputs,            \* output_page*.md: name -> file
    output_md,          \* output.md
    pc,                 \* where 03's main is: "idle" (not running), "loop",
                        \* "invoke", "save", "failed"
    md_files,           \* the sorted list translate_markdown_files iterates
    i,                  \* its loop position (1-based, as enumerate(md_files, 1))
    attempt,            \* the loop variable of translate_with_claude_cli
    stdout,             \* what the latest attempt's process printed
    translated_content, \* what translate_with_claude_cli returned
    translated_count,
    skipped_count,
    failed_count,
    \* observations of the run, for the properties
    runNo,              \* runs of 03's main started so far
    exit,               \* how the latest run of 03's main ended
    prevExit,           \* how the run before it ended
    lastEvent,          \* how the latest attempt's process ended
    invocations,        \* processes started by the current call of the Invoker
    invoked,            \* the Units this run has called the Invoker for
    rec,                \* name -> what this run recorded for it
    startOutputs,       \* outputs as they were when this run started
    writes,             \* name -> times its output file was opened for writing
    absentAt,           \* loop position at which 'claude' was found absent (0: never)
    lastMerge,          \* what the latest run of 04's main did
    \* the split stage (02's split_md_by_separator_with_merge)
    source_md,          \* the markdown file the split stage reads
    target_max_chars,
    splitPc,            \* "none" (not running), "loop" (in the merge loop), "done"
    sections,           \* the non-empty atomic sections
    section_index,      \* 1-based position of the merge loop in sections
    merged_sections,
    current_merged,     \* the pending buffer
    current_char_count,
    saved,              \* per merged section: the sections it is made of and
                        \* the size the loop had accumulated for it
    current_sections,   \* the sections that make up the pending buffer
    \* the fallback split (01's split_markdown_by_size)
    target_size,
    chunks,
    \* runs of 03's main at the same time on one directory
    workers,            \* run -> where it is, its loop position and what it
                        \* is about to write
    produced,           \* name -> the texts successful calls of the Invoker
                        \* have returned for it
    retry_failed,       \* args.retry_failed of the latest run of 03's main
    \* slide texts (pptxtrans)
    json_file,          \* the JSON file of text items: whether it parses, and
                        \* the items it holds
    json_run            \* translate_json_texts: where it is, its locals, and
                        \* what its runs have done

vars == <<units, outputs, output_md, pc, md_files, i, attempt, stdout,
          translated_content, translated_count, skipped_count, failed_count,
          runNo, exit, prevExit, lastEvent, invocations, invoked,
          rec, startOutputs, writes, absentAt, lastMerge,
          source_md, target_max_chars, splitPc, sections, section_index,
          merged_sections, current_merged, current_char_count, saved,
          current_sections, target_size, chunks, workers, produced, retry_failed,
          json_file, json_run>>

jsonVars == <<json_file, json_run>>

workerVars == <<workers, produced>>

argVars == <<retry_failed>>

splitVars == <<source_md, target_max_chars, splitPc, sections, section_index,
               merged_sections, current_merged, current_char_count, saved,
               current_sections, target_size, chunks>>

coordVars == <<pc, md_files, i, attempt, stdout, translated_content,
               translated_count, skipped_count, failed_count, runNo, exit,
               prevExit, lastEvent, invocations, invoked, rec, startOutputs, writes,
               absentAt>>

Names == DOMAIN units

\* Unit contents of the model: one that is empty after trimming, one that is not.
UnitTexts == {<<SP>>, <<"a">>}

NoMerge == [ran |-> FALSE, nUnits |-> 0, nOutputs |-> 0, wrote |-> FALSE,
            aborted |-> FALSE, order |-> <<>>, unreadable |-> {}]

\* translate_json_texts before its first run, with no file to work on.
IdleJsonRun ==
    [pc |-> "idle", texts_data |-> <<>>, idx |-> 0, attempt |-> 0,
     translation_cache |-> [o \in {} |-> <<>>],
     translated_count |-> 0, skipped_count |-> 0, failed_count |-> 0,
     runs |-> 0, calls |-> <<>>, failed |-> {}, loaded |-> <<>>,
     returned |-> "none"]

\* The slide texts are not part of the behaviour.
NoJson ==
    /\ json_file = [valid |-> TRUE, items |-> <<>>]
    /\ json_run = IdleJsonRun

\* The runs of 03's main that share a directory in SpecWorkers.
Workers == {1, 2}

\* A run that has not started.
IdleWorker == [pc |-> "idle", md_files |-> <<>>, i |-> 0, content |-> <<>>]

\* No concurrent runs are part of the behaviour.
NoWorkers ==
    /\ workers = [p \in Workers |-> IdleWorker]
    /\ produced = [f \in DOMAIN units |-> {}]

\* The split stage is not part of the behaviour.
NoSplit ==
    /\ source_md = <<>>
    /\ target_max_chars = 0
    /\ splitPc = "none"
    /\ sections = <<>>
    /\ section_index = 0
    /\ merged_sections = <<>>
    /\ current_merged = <<>>
    /\ current_char_count = 0
    /\ saved = <<>>
    /\ current_sections = <<>>
    /\ target_size = 0
    /\ chunks = <<>>

\* The checkpoint directory as the split stage leaves it: up to MaxUnits
\* units page0001.md.., no output, and no run yet.
Init ==
    /\ \E n \in 0..MaxUnits :
          units \in [{PageDigits(k) : k \in 1..n} -> UnitTexts]
    /\ outputs = [f \in DOMAIN units |-> NoFile]
    /\ output_md = NoFile
    /\ pc = "idle"
    /\ md_files = <<>>
    /\ i = 0
    /\ attempt = 0
    /\ stdout = <<>>
    /\ translated_content = None
    /\ translated_count = 0
    /\ skipped_count = 0
    /\ failed_count = 0
    /\ runNo = 0
    /\ exit = "none"
    /\ prevExit = "none"
    /\ lastEvent = "none"
    /\ invocations = 0
    /\ invoked = {}
    /\ rec = [f \in DOMAIN units |-> "none"]
    /\ startOutputs = outputs
    /\ writes = [f \in DOMAIN units |-> 0]
    /\ absentAt = 0
    /\ lastMerge = NoMerge
    /\ NoWorkers
    /\ NoJson
    /\ retry_failed = FALSE
    /\ NoSplit

\* ------------------------------------------------ Translation Invoker (03)

\* How one start of the 'claude' process can end.
Event(kind, returncode, out) == [kind |-> kind, returncode |-> returncode, stdout |-> out]
EventsOver(responses) ==
    {Event("notfound", 0, <<>>), Event("timeout", 0, <<>>), Event("exit", 1, <<>>)}
        \cup {Event("exit", 0, r) : r \in responses}

\* run_claude_with_realtime_output: what it returns, or the exception that
\* leaves it. Popen raising FileNotFoundError and communicate raising
\* TimeoutExpired are both caught inside it and returned as code -1.
run_claude_with_realtime_output(ev) ==
    IF ev.kind = "exit"
    THEN [raised |-> "none", returncode |-> ev.returncode, stdout |-> ev.stdout]
    ELSE [raised |-> "none", returncode |-> -1, stdout |-> <<>>]

\* One pass of the body of 'for attempt in range(max_retries)': what
\* translate_with_claude_cli does with the call's result.
\*   "return"  leave the function with val (a text, or None)
\*   "continue" go on to the next attempt
AttemptResult(ev) ==
    LET r == run_claude_with_realtime_output(ev)
        parsed == ParseResponse(r.stdout)
    IN  IF r.raised = "FileNotFoundError" THEN [do |-> "return", val |-> None]
        ELSE IF r.raised # "none" THEN [do |-> "continue", val |-> None]
        ELSE IF r.returncode = 0
        THEN IF parsed.some
             THEN [do |-> "return", val |-> parsed]
             ELSE [do |-> "continue", val |-> None]
        ELSE [do |-> "continue", val |-> None]

\* ------------------------------------------------ Pipeline Coordinator (03)

\* The observations of one run, as a run of 03's main starts.
RunReset ==
    /\ runNo' = runNo + 1
    /\ prevExit' = exit
    /\ lastEvent' = "none"
    /\ invocations' = 0
    /\ invoked' = {}
    /\ rec' = [f \in Names |-> "none"]
    /\ startOutputs' = outputs
    /\ absentAt' = 0
    /\ attempt' = 0
    /\ stdout' = <<>>
    /\ translated_content' = None
    /\ translated_count' = 0
    /\ skipped_count' = 0
    /\ failed_count' = 0

\* main() exits before translate_markdown_files has a Unit to work on:
\* check_claude_cli() is false, the temp directory or its config.txt is
\* missing, or, in default mode, glob finds no page*.md.
MainAborts ==
    /\ pc = "idle"
    /\ runNo < MaxRuns
    /\ \E why \in {"no_cli", "no_dir", "no_config", "no_units"} :
       \E r \in BOOLEAN :
          /\ why = "no_units" => Names = {} /\ ~r
          /\ retry_failed' = r
    /\ exit' = "error"
    /\ RunReset
    /\ md_files' = <<>>
    /\ i' = 0
    /\ UNCHANGED <<jsonVars, workerVars, splitVars, units, outputs, output_md, pc, writes, lastMerge>>

\* main() reaches the loop of translate_markdown_files (default mode).
MainStarts ==
    /\ pc = "idle"
    /\ runNo < MaxRuns
    /\ Names # {}
    /\ RunReset
    /\ md_files' = SortedFiles(Names)
    /\ i' = 1
    /\ pc' = "loop"
    /\ exit' = "none"
    /\ retry_failed' = FALSE
    /\ UNCHANGED <<jsonVars, workerVars, splitVars, units, outputs, output_md, writes, lastMerge>>

\* os.path.getsize of a file, in bytes of its UTF-8 text; "para" stands for
\* a paragraph of fifty letters.
TokenBytes(c) ==
    CASE c = LT -> 4
      [] c = GT -> 3
      [] c = "START" -> 5
      [] c = "END" -> 3
      [] c = "zh" -> 3
      [] c = DASH -> 10
      [] c = "para" -> 50
      [] OTHER -> 1

RECURSIVE getsize(_)
getsize(text) ==
    IF text = <<>> THEN 0 ELSE TokenBytes(Head(text)) + getsize(Tail(text))

\* if os.path.getsize(output_file) < 50
retry_size_limit == 50

\* The output files a --retry-failed run takes for failed ones.
SmallOutputs ==
    {f \in Names : outputs[f].exists /\ getsize(outputs[f].content) < retry_size_limit}

\* main() with --retry-failed reaches the loop: every output_page*.md of
\* less than 50 bytes is removed first, except those where getsize or
\* remove raises (except: pass).
MainStartsRetry ==
    /\ pc = "idle"
    /\ runNo < MaxRuns
    /\ Names # {}
    /\ \E kept \in SUBSET SmallOutputs :
          outputs' = [f \in Names |->
                         IF f \in SmallOutputs \ kept THEN NoFile ELSE outputs[f]]
    /\ RunReset
    /\ md_files' = SortedFiles(Names)
    /\ i' = 1
    /\ pc' = "loop"
    /\ exit' = "none"
    /\ retry_failed' = TRUE
    /\ UNCHANGED <<jsonVars, workerVars, splitVars, units, output_md, writes, lastMerge>>

\* main() with --retry-failed and no page*.md in the directory: the
\* output_page*.md files of less than 50 bytes are removed first, then
\* translate_markdown_files finds no Unit and exits.
MainAbortsRetry ==
    /\ pc = "idle"
    /\ runNo < MaxRuns
    /\ Names = {}
    /\ LET small == {f \in DOMAIN outputs :
                        outputs[f].exists
                           /\ getsize(outputs[f].content) < retry_size_limit}
       IN  \E kept \in SUBSET small :
              outputs' = [f \in DOMAIN outputs |->
                             IF f \in small \ kept THEN NoFile ELSE outputs[f]]
    /\ exit' = "error"
    /\ RunReset
    /\ md_files' = <<>>
    /\ i' = 0
    /\ retry_failed' = TRUE
    /\ UNCHANGED <<jsonVars, workerVars, splitVars, units, output_md, pc, writes, lastMerge>>

\* The names in the checkpoint directory. A Unit is what glob finds for
\* page*.md; the Coordinator writes output_ + the Unit's name, the Merger
\* output.md.
unit_filename(f) == <<"page">> \o f \o <<".md">>
output_filename(f) == <<"output_">> \o unit_filename(f)
merged_filename == <<"output", ".md">>
MatchesPageGlob(path) == path[1] = "page" /\ path[Len(path)] = ".md"

InLoop == pc = "loop" /\ i <= Len(md_files)

\* SkipExisting, skipping only an Output Unit that is not empty: an empty
\* one is translated again.
SkipExisting_ifNonEmpty ==
    /\ pc = "loop" /\ i <= Len(md_files)
    /\ outputs[md_files[i]].exists
    /\ IF outputs[md_files[i]].content # <<>>
       THEN /\ skipped_count' = skipped_count + 1
            /\ rec' = [rec EXCEPT ![md_files[i]] = "skipped"]
            /\ i' = i + 1
            /\ UNCHANGED <<pc, attempt, invocations, invoked>>
       ELSE /\ pc' = "invoke"
            /\ attempt' = 0
            /\ invocations' = 0
            /\ invoked' = invoked \cup {md_files[i]}
            /\ UNCHANGED <<skipped_count, rec, i>>
    /\ UNCHANGED <<jsonVars, argVars, workerVars, splitVars, units, outputs, output_md, md_files, stdout,
                   translated_content, translated_count, failed_count, runNo,
                   prevExit, exit, lastEvent, startOutputs, writes, absentAt,
                   lastMerge>>

\* SkipExisting, taking an existing Output Unit for a missing one: the
\* Unit goes on to be translated again.
SkipExisting_retranslate ==
    /\ pc = "loop" /\ i <= Len(md_files)
    /\ outputs[md_files[i]].exists
    /\ pc' = "invoke"
    /\ attempt' = 0
    /\ invocations' = 0
    /\ invoked' = invoked \cup {md_files[i]}
    /\ UNCHANGED <<jsonVars, argVars, workerVars, splitVars, units, outputs, output_md, md_files, i, stdout,
                   translated_content, translated_count, skipped_count,
                   failed_count, runNo, prevExit, exit, lastEvent, rec,
                   startOutputs, writes, absentAt, lastMerge>>

\* if os.path.exists(output_path): skipped_count += 1; continue
SkipExisting ==
    /\ InLoop
    /\ outputs[md_files[i]].exists
    /\ skipped_count' = skipped_count + 1
    /\ rec' = [rec EXCEPT ![md_files[i]] = "skipped"]
    /\ i' = i + 1
    /\ UNCHANGED <<jsonVars, argVars, workerVars, splitVars, units, outputs, output_md, pc, md_files, attempt, stdout,
                   translated_content, translated_count, failed_count, runNo, prevExit,
                   exit, lastEvent, invocations, invoked, startOutputs, writes,
                   absentAt, lastMerge>>

\* Reading the Unit raises: failed_count += 1; continue
ReadFails ==
    /\ InLoop
    /\ ~outputs[md_files[i]].exists
    /\ failed_count' = failed_count + 1
    /\ rec' = [rec EXCEPT ![md_files[i]] = "failed_read"]
    /\ i' = i + 1
    /\ UNCHANGED <<jsonVars, argVars, workerVars, splitVars, units, outputs, output_md, pc, md_files, attempt, stdout,
                   translated_content, translated_count, skipped_count, runNo, prevExit,
                   exit, lastEvent, invocations, invoked, startOutputs, writes,
                   absentAt, lastMerge>>

\* if len(content.strip()) < 1: the Unit is written as its own Output Unit.
\* The write is outside any try: an exception in it ends the run.
PassThrough ==
    /\ InLoop
    /\ ~outputs[md_files[i]].exists
    /\ Len(Strip(units[md_files[i]])) < 1
    /\ \E w \in WriteOutcomes :
          \/ /\ w = "ok"
             /\ outputs' = [outputs EXCEPT ![md_files[i]] = File(units[md_files[i]])]
             /\ writes' = [writes EXCEPT ![md_files[i]] = @ + 1]
             /\ skipped_count' = skipped_count + 1
             /\ rec' = [rec EXCEPT ![md_files[i]] = "passed_through"]
             /\ i' = i + 1
             /\ UNCHANGED <<pc, exit>>
          \/ /\ w = "open_fails"
             /\ pc' = "idle"
             /\ exit' = "crash"
             /\ UNCHANGED <<outputs, writes, skipped_count, rec, i>>
          \/ /\ w = "write_fails"
             /\ \E t \in Truncations(units[md_files[i]]) :
                   outputs' = [outputs EXCEPT ![md_files[i]] = File(t)]
             /\ writes' = [writes EXCEPT ![md_files[i]] = @ + 1]
             /\ pc' = "idle"
             /\ exit' = "crash"
             /\ UNCHANGED <<skipped_count, rec, i>>
    /\ UNCHANGED <<jsonVars, argVars, workerVars, splitVars, units, output_md, md_files, attempt, stdout,
                   translated_content, translated_count, failed_count, runNo, prevExit,
                   lastEvent, invocations, invoked, startOutputs, absentAt,
                   lastMerge>>

\* BeginTranslate, without the test for a blank Unit before it.
BeginTranslate_anyContent ==
    /\ InLoop
    /\ ~outputs[md_files[i]].exists
    /\ pc' = "invoke"
    /\ attempt' = 0
    /\ invocations' = 0
    /\ invoked' = invoked \cup {md_files[i]}
    /\ UNCHANGED <<jsonVars, argVars, workerVars, splitVars, units, outputs, output_md, md_files, i, stdout,
                   translated_content, translated_count, skipped_count,
                   failed_count, runNo, prevExit, exit, lastEvent, rec,
                   startOutputs, writes, absentAt, lastMerge>>

\* translated_content = translate_with_claude_cli(content, ...): the call.
BeginTranslate ==
    /\ InLoop
    /\ ~outputs[md_files[i]].exists
    /\ Len(Strip(units[md_files[i]])) >= 1
    /\ pc' = "invoke"
    /\ attempt' = 0
    /\ invocations' = 0
    /\ invoked' = invoked \cup {md_files[i]}
    /\ UNCHANGED <<jsonVars, argVars, workerVars, splitVars, units, outputs, output_md, md_files, i, stdout,
                   translated_content, translated_count, skipped_count,
                   failed_count, runNo, prevExit, exit, lastEvent, rec,
                   startOutputs, writes, absentAt, lastMerge>>

EventKind(ev) ==
    IF ev.kind = "exit" THEN (IF ev.returncode = 0 THEN "output" ELSE "nonzero")
    ELSE ev.kind

\* Attempt, with the loop running one pass too many.
Attempt_offByOne(ev) ==
    /\ pc = "invoke"
    /\ attempt <= max_retries
    /\ invocations' = invocations + 1
    /\ stdout' = run_claude_with_realtime_output(ev).stdout
    /\ lastEvent' = EventKind(ev)
    /\ absentAt' = IF ev.kind = "notfound" /\ absentAt = 0 THEN i ELSE absentAt
    /\ LET res == AttemptResult(ev)
       IN  IF res.do = "return"
           THEN /\ translated_content' = res.val
                /\ pc' = IF Truthy(res.val) THEN "save" ELSE "failed"
                /\ attempt' = attempt
           ELSE /\ translated_content' = None
                /\ attempt' = attempt + 1
                /\ pc' = IF attempt + 1 <= max_retries THEN "invoke" ELSE "failed"
    /\ UNCHANGED <<jsonVars, argVars, workerVars, splitVars, units, outputs, output_md, md_files, i, translated_count,
                   skipped_count, failed_count, runNo, prevExit, exit, invoked,
                   rec, startOutputs, writes, lastMerge>>

\* One attempt of translate_with_claude_cli: the process is started, ends
\* as ev says, and the loop returns or goes on.
Attempt(ev) ==
    /\ pc = "invoke"
    /\ attempt < max_retries
    /\ invocations' = invocations + 1
    /\ stdout' = run_claude_with_realtime_output(ev).stdout
    /\ lastEvent' = EventKind(ev)
    /\ absentAt' = IF ev.kind = "notfound" /\ absentAt = 0 THEN i ELSE absentAt
    /\ LET res == AttemptResult(ev)
       IN  IF res.do = "return"
           THEN /\ translated_content' = res.val
                /\ pc' = IF Truthy(res.val) THEN "save" ELSE "failed"
                /\ attempt' = attempt
           ELSE /\ translated_content' = None
                /\ attempt' = attempt + 1
                /\ pc' = IF attempt + 1 < max_retries THEN "invoke" ELSE "failed"
    /\ UNCHANGED <<jsonVars, argVars, workerVars, splitVars, units, outputs, output_md, md_files, i, translated_count,
                   skipped_count, failed_count, runNo, prevExit, exit, invoked,
                   rec, startOutputs, writes, lastMerge>>

\* The loop body is over for this Unit: on to the next one. What the call
\* of the Invoker left behind is not read again.
NextUnit ==
    /\ pc' = "loop"
    /\ i' = i + 1
    /\ attempt' = 0
    /\ invocations' = 0
    /\ stdout' = <<>>
    /\ lastEvent' = "none"
    /\ translated_content' = None

\* SaveTranslated, writing the translation over the Unit it came from.
SaveTranslated_inPlace ==
    /\ pc = "save"
    /\ units' = [units EXCEPT ![md_files[i]] = translated_content.val]
    /\ writes' = [writes EXCEPT ![md_files[i]] = @ + 1]
    /\ translated_count' = translated_count + 1
    /\ rec' = [rec EXCEPT ![md_files[i]] = "translated"]
    /\ NextUnit
    /\ UNCHANGED <<jsonVars, argVars, workerVars, splitVars, outputs, output_md, md_files, skipped_count,
                   failed_count, runNo, prevExit, exit, invoked, startOutputs, absentAt,
                   lastMerge>>

\* if translated_content: the Output Unit is written inside try/except.
SaveTranslated ==
    /\ pc = "save"
    /\ \E w \in WriteOutcomes :
          \/ /\ w = "ok"
             /\ outputs' = [outputs EXCEPT ![md_files[i]] = File(translated_content.val)]
             /\ writes' = [writes EXCEPT ![md_files[i]] = @ + 1]
             /\ translated_count' = translated_count + 1
             /\ rec' = [rec EXCEPT ![md_files[i]] = "translated"]
             /\ UNCHANGED failed_count
          \/ /\ w = "open_fails"
             /\ failed_count' = failed_count + 1
             /\ rec' = [rec EXCEPT ![md_files[i]] = "failed_save"]
             /\ UNCHANGED <<outputs, writes, translated_count>>
          \/ /\ w = "write_fails"
             /\ \E t \in Truncations(translated_content.val) :
                   outputs' = [outputs EXCEPT ![md_files[i]] = File(t)]
             /\ writes' = [writes EXCEPT ![md_files[i]] = @ + 1]
             /\ failed_count' = failed_count + 1
             /\ rec' = [rec EXCEPT ![md_files[i]] = "failed_save"]
             /\ UNCHANGED translated_count
    /\ NextUnit
    /\ UNCHANGED <<jsonVars, argVars, workerVars, splitVars, units, output_md, md_files, skipped_count, runNo, prevExit,
                   exit, invoked, startOutputs, absentAt, lastMerge>>

\* RecordFailure, leaving an empty placeholder file behind.
RecordFailure_placeholder ==
    /\ pc = "failed"
    /\ outputs' = [outputs EXCEPT ![md_files[i]] = File(<<>>)]
    /\ writes' = [writes EXCEPT ![md_files[i]] = @ + 1]
    /\ failed_count' = failed_count + 1
    /\ rec' = [rec EXCEPT ![md_files[i]] = "failed_translate"]
    /\ NextUnit
    /\ UNCHANGED <<jsonVars, argVars, workerVars, splitVars, units, output_md, md_files, translated_count,
                   skipped_count, runNo, prevExit, exit, invoked, startOutputs,
                   absentAt, lastMerge>>

\* RecordFailure, with the failure left out of the count.
RecordFailure_uncounted ==
    /\ pc = "failed"
    /\ rec' = [rec EXCEPT ![md_files[i]] = "failed_translate"]
    /\ NextUnit
    /\ UNCHANGED <<jsonVars, argVars, workerVars, splitVars, units, outputs, output_md, md_files, translated_count,
                   skipped_count, failed_count, runNo, prevExit, exit, invoked, startOutputs,
                   writes, absentAt, lastMerge>>

\* else: the translation failed; no file is created, failed_count += 1.
RecordFailure ==
    /\ pc = "failed"
    /\ failed_count' = failed_count + 1
    /\ rec' = [rec EXCEPT ![md_files[i]] = "failed_translate"]
    /\ NextUnit
    /\ UNCHANGED <<jsonVars, argVars, workerVars, splitVars, units, outputs, output_md, md_files, translated_count,
                   skipped_count, runNo, prevExit, exit, invoked, startOutputs,
                   writes, absentAt, lastMerge>>

\* The loop is over: the tally is printed and main returns.
Finish ==
    /\ pc = "loop"
    /\ i > Len(md_files)
    /\ pc' = "idle"
    /\ exit' = "tally"
    /\ UNCHANGED <<jsonVars, argVars, workerVars, splitVars, units, outputs, output_md, md_files, i, attempt, stdout,
                   translated_content, translated_count, skipped_count,
                   failed_count, runNo, prevExit, lastEvent, invocations, invoked, rec,
                   startOutputs, writes, absentAt, lastMerge>>

\* The run is stopped from outside (the process is killed, or Ctrl-C raises
\* KeyboardInterrupt, which no 'except Exception' catches) anywhere in the
\* loop. When it is stopped inside a 'with open(output_path, "w")' block the
\* file has been created and holds a proper prefix of what was to be written.
Interrupt ==
    /\ pc \in {"loop", "invoke", "save", "failed"}
    /\ \/ UNCHANGED <<outputs, writes>>
       \/ /\ pc = "save"
          /\ \E t \in Truncations(translated_content.val) :
                outputs' = [outputs EXCEPT ![md_files[i]] = File(t)]
          /\ writes' = [writes EXCEPT ![md_files[i]] = @ + 1]
       \/ /\ InLoop
          /\ ~outputs[md_files[i]].exists
          /\ Len(Strip(units[md_files[i]])) < 1
          /\ \E t \in Truncations(units[md_files[i]]) :
                outputs' = [outputs EXCEPT ![md_files[i]] = File(t)]
          /\ writes' = [writes EXCEPT ![md_files[i]] = @ + 1]
    /\ pc' = "idle"
    /\ exit' = "interrupted"
    /\ UNCHANGED <<jsonVars, argVars, workerVars, splitVars, units, output_md, md_files, i, attempt, stdout,
                   translated_content, translated_count, skipped_count,
                   failed_count, runNo, prevExit, lastEvent, invocations,
                   invoked, rec, startOutputs, absentAt, lastMerge>>

\* ------------------------------- Coordinator runs at the same time (03)

\* Several processes run translate_markdown_files on one directory. Each has
\* its own md_files, i and text to write; the files are shared. A file
\* opened with mode 'w' is created or emptied by open(); what is written
\* goes to the start of the file, over what is there, when the block ends.

\* The file of Unit f the run p is at.
WorkerFile(p) == workers[p].md_files[workers[p].i]
WorkerInLoop(p) ==
    workers[p].pc = "loop" /\ workers[p].i <= Len(workers[p].md_files)

\* The texts the Invoker can return for Unit f: they name the Unit and differ
\* in length from one call to the next.
ResultsFor(f) ==
    {<<ToString(DigitsValue(f)), "a">>, <<ToString(DigitsValue(f)), "b", "b">>}

\* f.write(text) on a file that holds old, from position 0.
WriteOver(old, text) ==
    IF Len(text) >= Len(old) THEN text
    ELSE text \o SubSeq(old, Len(text) + 1, Len(old))

WorkerStart(p) ==
    /\ workers[p].pc = "idle"
    /\ Names # {}
    /\ workers' = [workers EXCEPT ![p] = [pc |-> "loop", md_files |-> SortedFiles(Names),
                                          i |-> 1, content |-> <<>>]]
    /\ UNCHANGED <<jsonVars, argVars, produced, splitVars, units, outputs, output_md, lastMerge>>
    /\ UNCHANGED coordVars

\* if os.path.exists(output_path): continue
WorkerSkip(p) ==
    /\ WorkerInLoop(p)
    /\ outputs[WorkerFile(p)].exists
    /\ workers' = [workers EXCEPT ![p].i = @ + 1]
    /\ UNCHANGED <<jsonVars, argVars, produced, splitVars, units, outputs, output_md, lastMerge>>
    /\ UNCHANGED coordVars

\* The output file is missing: a blank Unit is to be written as it is; any
\* other goes to the Invoker, which returns a text to be written or fails.
WorkerTranslate(p) ==
    /\ WorkerInLoop(p)
    /\ ~outputs[WorkerFile(p)].exists
    /\ IF Len(Strip(units[WorkerFile(p)])) < 1
       THEN /\ workers' = [workers EXCEPT ![p].pc = "write",
                                          ![p].content = units[WorkerFile(p)]]
            /\ UNCHANGED produced
       ELSE \/ /\ workers' = [workers EXCEPT ![p].i = @ + 1]
               /\ UNCHANGED produced
            \/ \E r \in ResultsFor(WorkerFile(p)) :
                  /\ workers' = [workers EXCEPT ![p].pc = "write", ![p].content = r]
                  /\ produced' = [produced EXCEPT ![WorkerFile(p)] = @ \cup {r}]
    /\ UNCHANGED <<jsonVars, argVars, splitVars, units, outputs, output_md, lastMerge>>
    /\ UNCHANGED coordVars

\* with open(output_path, 'w', encoding='utf-8') as f:
WorkerOpen(p) ==
    /\ workers[p].pc = "write"
    /\ outputs' = [outputs EXCEPT ![WorkerFile(p)] = File(<<>>)]
    /\ workers' = [workers EXCEPT ![p].pc = "opened"]
    /\ UNCHANGED <<jsonVars, argVars, produced, splitVars, units, output_md, lastMerge>>
    /\ UNCHANGED coordVars

\* f.write(...) and the end of the with block; on to the next Unit.
WorkerWrite(p) ==
    /\ workers[p].pc = "opened"
    /\ outputs' = [outputs EXCEPT ![WorkerFile(p)] =
                      File(WriteOver(outputs[WorkerFile(p)].content, workers[p].content))]
    /\ workers' = [workers EXCEPT ![p].pc = "loop", ![p].i = @ + 1, ![p].content = <<>>]
    /\ UNCHANGED <<jsonVars, argVars, produced, splitVars, units, output_md, lastMerge>>
    /\ UNCHANGED coordVars

\* The loop is over.
WorkerFinish(p) ==
    /\ workers[p].pc = "loop"
    /\ workers[p].i > Len(workers[p].md_files)
    /\ workers' = [workers EXCEPT ![p].pc = "done"]
    /\ UNCHANGED <<jsonVars, argVars, produced, splitVars, units, outputs, output_md, lastMerge>>
    /\ UNCHANGED coordVars

\* ------------------------------------------------------------ Merger (04)

\* natural_sort_key(name): ['output_page', int(NNNN), '.md']; the names differ
\* in the number alone.
natural_sort_key(name) == DigitsValue(name)

\* KeyLeq, comparing the names as strings.
KeyLeq_lexical(a, b) == StrLeq(a, b)

\* The order of two files under the key of output_files.sort(key=...).
KeyLeq(a, b) == natural_sort_key(a) <= natural_sort_key(b)

\* list.sort: stable, so files with equal keys keep their listing order.
RECURSIVE InsertByKey(_, _)
InsertByKey(sorted, a) ==
    IF Len(sorted) = 0 THEN <<a>>
    ELSE IF KeyLeq(sorted[Len(sorted)], a) THEN Append(sorted, a)
    ELSE Append(InsertByKey(SubSeq(sorted, 1, Len(sorted) - 1), a), sorted[Len(sorted)])

RECURSIVE SortByKey(_)
SortByKey(listing) ==
    IF Len(listing) = 0 THEN <<>>
    ELSE InsertByKey(SortByKey(SubSeq(listing, 1, Len(listing) - 1)), listing[Len(listing)])

\* The output_page*.md files glob finds.
OutputFiles == {f \in DOMAIN outputs : outputs[f].exists}

\* The loop over the sorted files: a file that cannot be read is passed over,
\* one that is empty after strip() adds nothing, any other adds its stripped
\* content and a blank line.
RECURSIVE MergedContent(_, _)
MergedContent(files, unreadable) ==
    IF Len(files) = 0 THEN <<>>
    ELSE LET content == Strip(outputs[Head(files)].content)
         IN  (IF Head(files) \in unreadable \/ content = <<>>
              THEN <<>> ELSE content \o <<NL, NL>>)
             \o MergedContent(Tail(files), unreadable)

\* Files of one merge that fail to be read.
MaxUnreadable == 1

\* 04's main exits before anything is merged: no *_temp directory, no
\* config.txt, or no output_page*.md at all.
MergeAborts ==
    /\ pc = "idle"
    /\ ~lastMerge.ran
    /\ \E why \in {"no_dir", "no_config", "no_outputs"} :
          why = "no_outputs" => OutputFiles = {}
    /\ lastMerge' = [ran |-> TRUE, nUnits |-> Cardinality(Names),
                     nOutputs |-> Cardinality(OutputFiles), wrote |-> FALSE,
                     aborted |-> TRUE, order |-> <<>>, unreadable |-> {}]
    /\ UNCHANGED <<jsonVars, argVars, workerVars, splitVars, units, outputs, output_md>>
    /\ UNCHANGED coordVars

\* merge_markdown_files with at least one output file: sort, concatenate,
\* write output.md.
Merge ==
    /\ pc = "idle"
    /\ ~lastMerge.ran
    /\ OutputFiles # {}
    /\ \E listing \in Listings(OutputFiles) :
       \E unreadable \in {u \in SUBSET OutputFiles : Cardinality(u) <= MaxUnreadable} :
       \E w \in WriteOutcomes :
          LET output_files == SortByKey(listing)
              merged_content == MergedContent(output_files, unreadable)
          IN  /\ \/ /\ w = "ok"
                    /\ output_md' = File(merged_content)
                 \/ /\ w = "open_fails"
                    /\ output_md' = output_md
                 \/ /\ w = "write_fails"
                    /\ \E t \in Truncations(merged_content) : output_md' = File(t)
              /\ lastMerge' = [ran |-> TRUE, nUnits |-> Cardinality(Names),
                               nOutputs |-> Cardinality(OutputFiles),
                               wrote |-> (w # "open_fails"),
                               aborted |-> (w # "ok"),
                               order |-> output_files,
                               unreadable |-> unreadable]
    /\ UNCHANGED <<jsonVars, argVars, workerVars, splitVars, units, outputs>>
    /\ UNCHANGED coordVars

\* ------------------------------------------------------ Unit Splitter (02)

\* The file is read and cut into its non-empty sections; the loop starts.
SplitRead ==
    /\ splitPc = "start"
    /\ sections' = SplitSections(source_md)
    /\ section_index' = 1
    /\ merged_sections' = <<>>
    /\ current_merged' = <<>>
    /\ current_char_count' = 0
    /\ saved' = <<>>
    /\ current_sections' = <<>>
    /\ splitPc' = "loop"
    /\ UNCHANGED <<jsonVars, argVars, workerVars, target_size, chunks, source_md, target_max_chars, units, outputs, output_md, lastMerge>>
    /\ UNCHANGED coordVars

SplitInLoop == splitPc = "loop" /\ section_index <= Len(sections)

section_char_count == estimate_combined_char_count(sections[section_index])
potential_count == current_char_count + section_char_count

\* What current_merged, if any, adds to merged_sections when it is saved.
Pending == IF current_merged # <<>> THEN <<current_merged>> ELSE <<>>
PendingSaved ==
    IF current_merged # <<>>
    THEN <<[sections |-> current_sections, count |-> current_char_count]>>
    ELSE <<>>

\* AddToMerged, adding the section to the pending buffer whatever the total.
AddToMerged_always ==
    /\ SplitInLoop
    /\ section_char_count <= target_max_chars
    /\ current_merged' = IF current_merged # <<>>
                         THEN current_merged \o <<NL, NL>> \o sections[section_index]
                         ELSE sections[section_index]
    /\ current_char_count' = potential_count
    /\ current_sections' = Append(current_sections, section_index)
    /\ section_index' = section_index + 1
    /\ UNCHANGED <<jsonVars, argVars, workerVars, target_size, chunks, source_md, target_max_chars, splitPc, sections, merged_sections,
                   saved, units, outputs, output_md, lastMerge>>
    /\ UNCHANGED coordVars

\* AddToMerged, with the section taking the place of the pending buffer.
AddToMerged_overwrite ==
    /\ SplitInLoop
    /\ section_char_count <= target_max_chars
    /\ ~(current_merged # <<>> /\ potential_count > target_max_chars)
    /\ current_merged' = sections[section_index]
    /\ current_char_count' = section_char_count
    /\ current_sections' = <<section_index>>
    /\ section_index' = section_index + 1
    /\ UNCHANGED <<jsonVars, argVars, workerVars, target_size, chunks, source_md, target_max_chars, splitPc, sections, merged_sections,
                   saved, units, outputs, output_md, lastMerge>>
    /\ UNCHANGED coordVars

\* SaveLargeSeparately, leaving the pending buffer where it is.
SaveLargeSeparately_noFlush ==
    /\ SplitInLoop
    /\ section_char_count > target_max_chars
    /\ merged_sections' = Append(merged_sections, sections[section_index])
    /\ saved' = Append(saved, [sections |-> <<section_index>>,
                               count |-> section_char_count])
    /\ section_index' = section_index + 1
    /\ UNCHANGED <<jsonVars, argVars, workerVars, target_size, chunks, source_md, target_max_chars, splitPc, sections, current_merged,
                   current_char_count, current_sections, units, outputs,
                   output_md, lastMerge>>
    /\ UNCHANGED coordVars

\* if section_char_count > target_max_chars: the pending buffer, if any, is
\* saved, then the section is saved on its own; continue.
SaveLargeSeparately ==
    /\ SplitInLoop
    /\ section_char_count > target_max_chars
    /\ merged_sections' = merged_sections \o Pending \o <<sections[section_index]>>
    /\ saved' = saved \o PendingSaved
                      \o <<[sections |-> <<section_index>>, count |-> section_char_count]>>
    /\ current_merged' = <<>>
    /\ current_char_count' = IF current_merged # <<>> THEN 0 ELSE current_char_count
    /\ current_sections' = <<>>
    /\ section_index' = section_index + 1
    /\ UNCHANGED <<jsonVars, argVars, workerVars, target_size, chunks, source_md, target_max_chars, splitPc, sections, units, outputs,
                   output_md, lastMerge>>
    /\ UNCHANGED coordVars

\* SaveMergedAndRestart, saving the pending buffer as soon as the total
\* reaches the maximum.
SaveMergedAndRestart_atLimit ==
    /\ SplitInLoop
    /\ section_char_count <= target_max_chars
    /\ current_merged # <<>> /\ potential_count >= target_max_chars
    /\ merged_sections' = Append(merged_sections, current_merged)
    /\ saved' = saved \o PendingSaved
    /\ current_merged' = sections[section_index]
    /\ current_char_count' = section_char_count
    /\ current_sections' = <<section_index>>
    /\ section_index' = section_index + 1
    /\ UNCHANGED <<jsonVars, argVars, workerVars, target_size, chunks, source_md, target_max_chars, splitPc, sections, units, outputs,
                   output_md, lastMerge>>
    /\ UNCHANGED coordVars

\* if current_merged and potential_count > target_max_chars: the pending
\* buffer is saved and a new one starts with the section.
SaveMergedAndRestart ==
    /\ SplitInLoop
    /\ section_char_count <= target_max_chars
    /\ current_merged # <<>> /\ potential_count > target_max_chars
    /\ merged_sections' = Append(merged_sections, current_merged)
    /\ saved' = saved \o PendingSaved
    /\ current_merged' = sections[section_index]
    /\ current_char_count' = section_char_count
    /\ current_sections' = <<section_index>>
    /\ section_index' = section_index + 1
    /\ UNCHANGED <<jsonVars, argVars, workerVars, target_size, chunks, source_md, target_max_chars, splitPc, sections, units, outputs,
                   output_md, lastMerge>>
    /\ UNCHANGED coordVars

\* else: the section joins the pending buffer, after a blank line if the
\* buffer holds something.
AddToMerged ==
    /\ SplitInLoop
    /\ section_char_count <= target_max_chars
    /\ ~(current_merged # <<>> /\ potential_count > target_max_chars)
    /\ current_merged' = IF current_merged # <<>>
                         THEN current_merged \o <<NL, NL>> \o sections[section_index]
                         ELSE sections[section_index]
    /\ current_char_count' = potential_count
    /\ current_sections' = Append(current_sections, section_index)
    /\ section_index' = section_index + 1
    /\ UNCHANGED <<jsonVars, argVars, workerVars, target_size, chunks, source_md, target_max_chars, splitPc, sections, merged_sections,
                   saved, units, outputs, output_md, lastMerge>>
    /\ UNCHANGED coordVars

\* After the loop: the last pending buffer is saved and every merged section
\* is written as page0001.md, page0002.md, ...
SaveLast ==
    /\ splitPc = "loop"
    /\ section_index > Len(sections)
    /\ merged_sections' = merged_sections \o Pending
    /\ saved' = saved \o PendingSaved
    /\ units' = [f \in {PageDigits(n) : n \in 1..Len(merged_sections')} |->
                    merged_sections'[DigitsValue(f)]]
    /\ outputs' = [f \in DOMAIN units' |-> NoFile]
    /\ rec' = [f \in DOMAIN units' |-> "none"]
    /\ writes' = [f \in DOMAIN units' |-> 0]
    /\ startOutputs' = outputs'
    /\ splitPc' = "done"
    /\ UNCHANGED <<jsonVars, argVars, workerVars, target_size, chunks, source_md, target_max_chars, sections, section_index,
                   current_merged, current_char_count, current_sections,
                   output_md, lastMerge>>
    /\ UNCHANGED <<jsonVars, argVars, workerVars, pc, md_files, i, attempt, stdout, translated_content,
                   translated_count, skipped_count, failed_count, runNo, exit,
                   prevExit, lastEvent, invocations, invoked, absentAt>>

\* ----------------------------------------- fallback split by size (01)

\* len() of a token of the model's texts, in characters.
CharLen(c) ==
    IF c = DASH THEN 10
    ELSE IF c = "START" THEN 5
    ELSE IF c = LT THEN 4
    ELSE IF c \in {GT, "END"} THEN 3
    ELSE 1

RECURSIVE TextLen(_)
TextLen(text) == IF Len(text) = 0 THEN 0 ELSE CharLen(Head(text)) + TextLen(Tail(text))

\* The loop 'for line in lines' from line k on, and the last chunk after it.
RECURSIVE ChunkLoop(_, _, _, _, _, _)
ChunkLoop(lines, k, done, current_chunk, current_size, target) ==
    IF k > Len(lines)
    THEN IF current_chunk # <<>> THEN Append(done, Join(current_chunk)) ELSE done
    ELSE LET line_size == TextLen(lines[k]) + 1
         IN  IF current_size + line_size > target /\ current_chunk # <<>>
             THEN ChunkLoop(lines, k + 1, Append(done, Join(current_chunk)),
                            <<lines[k]>>, line_size, target)
             ELSE ChunkLoop(lines, k + 1, done, Append(current_chunk, lines[k]),
                            current_size + line_size, target)

\* The chunks split_markdown_by_size cuts content into.
split_markdown_by_size(content, target) ==
    ChunkLoop(Split(content), 1, <<>>, <<>>, 0, target)

\* split_markdown_by_size runs: the chunks are written as page0001.md, ...
SplitBySize ==
    /\ splitPc = "size_start"
    /\ chunks' = split_markdown_by_size(source_md, target_size)
    /\ units' = [f \in {PageDigits(n) : n \in 1..Len(chunks')} |-> chunks'[DigitsValue(f)]]
    /\ outputs' = [f \in DOMAIN units' |-> NoFile]
    /\ rec' = [f \in DOMAIN units' |-> "none"]
    /\ writes' = [f \in DOMAIN units' |-> 0]
    /\ startOutputs' = outputs'
    /\ splitPc' = "done"
    /\ UNCHANGED <<source_md, target_size, target_max_chars, sections, section_index,
                   merged_sections, current_merged, current_char_count, saved,
                   current_sections, output_md, lastMerge>>
    /\ UNCHANGED <<jsonVars, argVars, workerVars, pc, md_files, i, attempt, stdout, translated_content,
                   translated_count, skipped_count, failed_count, runNo, exit,
                   prevExit, lastEvent, invocations, invoked, absentAt>>

\* ------------------------------------------------------------ specifications

\* The outputs of the capability the Coordinator's runs draw from: a
\* well-formed one, one with variant markers, one without markers, one with
\* nothing between the markers.
CoordinatorResponses ==
    { start_marker \o <<NL, "a", NL>> \o end_marker,
      <<LT, "START", GT, SP, "b", SP, LT, SP, "END", GT>>,
      <<"a">>,
      start_marker \o <<NL>> \o end_marker }

\* Runs of the translate stage (03) on one checkpoint directory.
Next ==
    \/ MainAborts
    \/ MainStarts
    \/ SkipExisting
    \/ ReadFails
    \/ PassThrough
    \/ BeginTranslate
    \/ \E ev \in EventsOver(CoordinatorResponses) : Attempt(ev)
    \/ SaveTranslated
    \/ RecordFailure
    \/ Finish

Spec == Init /\ [][Next]_vars

\* Runs of the translate stage that can be stopped from outside and started
\* again.
NextRestart ==
    \/ Next
    \/ Interrupt

SpecRestart == Init /\ [][NextRestart]_vars

\* ---- runs of the translate stage, in default mode or with --retry-failed,
\* ---- and one run of the merge stage, on one checkpoint directory
NextPipeline ==
    \/ Next
    \/ MainStartsRetry
    \/ MergeAborts
    \/ Merge

SpecPipeline == Init /\ [][NextPipeline]_vars

\* ---- runs of the translate stage with --retry-failed, on a directory
\* ---- where earlier runs have left output files of any size

\* What an earlier run can have left as a Unit's output file: nothing, an
\* empty file, a short text, a text of fifty bytes.
LeftOutputs == {NoFile, File(<<>>), File(<<"b">>), File(<<"para">>)}

InitRetry ==
    /\ \E n \in 0..MaxUnits :
          units \in [{PageDigits(k) : k \in 1..n} -> UnitTexts]
    /\ outputs \in [DOMAIN units -> LeftOutputs]
    /\ output_md = NoFile
    /\ pc = "idle"
    /\ md_files = <<>>
    /\ i = 0
    /\ attempt = 0
    /\ stdout = <<>>
    /\ translated_content = None
    /\ translated_count = 0
    /\ skipped_count = 0
    /\ failed_count = 0
    /\ runNo = 0
    /\ exit = "none"
    /\ prevExit = "none"
    /\ lastEvent = "none"
    /\ invocations = 0
    /\ invoked = {}
    /\ rec = [f \in DOMAIN units |-> "none"]
    /\ startOutputs = outputs
    /\ writes = [f \in DOMAIN units |-> 0]
    /\ absentAt = 0
    /\ lastMerge = NoMerge
    /\ NoWorkers
    /\ NoJson
    /\ retry_failed = FALSE
    /\ NoSplit

NextRetry ==
    \/ MainStartsRetry
    \/ SkipExisting
    \/ ReadFails
    \/ PassThrough
    \/ BeginTranslate
    \/ \E ev \in EventsOver(CoordinatorResponses) : Attempt(ev)
    \/ SaveTranslated
    \/ RecordFailure
    \/ Finish

SpecRetry == InitRetry /\ [][NextRetry]_vars

\* ---- the translate and merge stages ending before their work starts, on
\* ---- a directory with or without Units, config.txt and output files

InitConfig ==
    /\ \E n \in 0..MaxUnits :
          units \in [{PageDigits(k) : k \in 1..n} -> UnitTexts]
    /\ \/ outputs \in [DOMAIN units -> LeftOutputs]
       \/ /\ DOMAIN units = {}
          /\ \E n \in 1..MaxUnits : outputs \in [{PageDigits(k) : k \in 1..n} -> LeftOutputs]
    /\ output_md = NoFile
    /\ pc = "idle"
    /\ md_files = <<>>
    /\ i = 0
    /\ attempt = 0
    /\ stdout = <<>>
    /\ translated_content = None
    /\ translated_count = 0
    /\ skipped_count = 0
    /\ failed_count = 0
    /\ runNo = 0
    /\ exit = "none"
    /\ prevExit = "none"
    /\ lastEvent = "none"
    /\ invocations = 0
    /\ invoked = {}
    /\ rec = [f \in DOMAIN units |-> "none"]
    /\ startOutputs = outputs
    /\ writes = [f \in DOMAIN units |-> 0]
    /\ absentAt = 0
    /\ lastMerge = NoMerge
    /\ NoWorkers
    /\ NoJson
    /\ retry_failed = FALSE
    /\ NoSplit

NextConfig ==
    \/ MainAborts
    \/ MainAbortsRetry
    \/ MergeAborts

SpecConfig == InitConfig /\ [][NextConfig]_vars

\* ---- runs of the translate stage on the last Units of a long document

\* The Units without an output file in a directory of 10000 Units,
\* page0001.md to page10000.md as the split stage names them: the last two.
\* The Units before them, each with its output file, are only skipped and
\* are left out.
OrderNames == {PageDigits(9999), PageDigits(10000)}

InitOrder ==
    /\ units \in [OrderNames -> UnitTexts]
    /\ outputs = [f \in DOMAIN units |-> NoFile]
    /\ output_md = NoFile
    /\ pc = "idle"
    /\ md_files = <<>>
    /\ i = 0
    /\ attempt = 0
    /\ stdout = <<>>
    /\ translated_content = None
    /\ translated_count = 0
    /\ skipped_count = 0
    /\ failed_count = 0
    /\ runNo = 0
    /\ exit = "none"
    /\ prevExit = "none"
    /\ lastEvent = "none"
    /\ invocations = 0
    /\ invoked = {}
    /\ rec = [f \in DOMAIN units |-> "none"]
    /\ startOutputs = outputs
    /\ writes = [f \in DOMAIN units |-> 0]
    /\ absentAt = 0
    /\ lastMerge = NoMerge
    /\ NoWorkers
    /\ NoJson
    /\ retry_failed = FALSE
    /\ NoSplit

SpecOrder == InitOrder /\ [][Next]_vars

\* ---- runs of the translate stage at the same time on one directory
NextWorkers ==
    \E p \in Workers :
        \/ WorkerStart(p)
        \/ WorkerSkip(p)
        \/ WorkerTranslate(p)
        \/ WorkerOpen(p)
        \/ WorkerWrite(p)
        \/ WorkerFinish(p)

SpecWorkers == Init /\ [][NextWorkers]_vars

\* ---- the merge stage alone, on any directory of output files

\* Output files of one directory.
MaxMergeFiles == 3

\* File names by their NNNN: zero-padded ones as the split stage writes
\* them, and unpadded ones of different widths.
MergeNames == {<<0, 0, 0, 1>>, <<0, 0, 0, 2>>, <<0, 0, 0, 3>>, <<2>>, <<1, 0>>}

\* Contents that show which file they are from: the file's number, bare or
\* with surrounding whitespace.
MergeTexts(name) ==
    { <<ToString(DigitsValue(name))>>, <<SP, ToString(DigitsValue(name)), NL>> }

InitMerge ==
    /\ \E S \in {T \in SUBSET MergeNames : Cardinality(T) <= MaxMergeFiles} :
          /\ units = [f \in S |-> <<"a">>]
          /\ outputs \in [S -> {NoFile} \cup UNION {{File(c) : c \in MergeTexts(f)} : f \in S}]
          /\ \A f \in S : outputs[f].exists => outputs[f].content \in MergeTexts(f)
    /\ output_md = NoFile
    /\ pc = "idle"
    /\ md_files = <<>>
    /\ i = 0
    /\ attempt = 0
    /\ stdout = <<>>
    /\ translated_content = None
    /\ translated_count = 0
    /\ skipped_count = 0
    /\ failed_count = 0
    /\ runNo = 0
    /\ exit = "none"
    /\ prevExit = "none"
    /\ lastEvent = "none"
    /\ invocations = 0
    /\ invoked = {}
    /\ rec = [f \in DOMAIN units |-> "none"]
    /\ startOutputs = outputs
    /\ writes = [f \in DOMAIN units |-> 0]
    /\ absentAt = 0
    /\ lastMerge = NoMerge
    /\ NoWorkers
    /\ NoJson
    /\ retry_failed = FALSE
    /\ NoSplit

NextMerge ==
    \/ MergeAborts
    \/ Merge

SpecMerge == InitMerge /\ [][NextMerge]_vars

\* ---- the merge stage alone, on output files some of which are blank

\* The names of this directory: padded and unpadded, of different widths.
BlankMergeNames == {<<0, 0, 0, 1>>, <<2>>, <<1, 0>>}

\* An output file with nothing in it, or with whitespace alone.
BlankTexts == {<<>>, <<SP, NL>>}

InitMergeBlank ==
    /\ \E S \in SUBSET BlankMergeNames :
          /\ units = [f \in S |-> <<"a">>]
          /\ outputs \in [S -> {NoFile} \cup UNION {{File(c) : c \in MergeTexts(f) \cup BlankTexts} : f \in S}]
          /\ \A f \in S : outputs[f].exists => outputs[f].content \in MergeTexts(f) \cup BlankTexts
    /\ output_md = NoFile
    /\ pc = "idle"
    /\ md_files = <<>>
    /\ i = 0
    /\ attempt = 0
    /\ stdout = <<>>
    /\ translated_content = None
    /\ translated_count = 0
    /\ skipped_count = 0
    /\ failed_count = 0
    /\ runNo = 0
    /\ exit = "none"
    /\ prevExit = "none"
    /\ lastEvent = "none"
    /\ invocations = 0
    /\ invoked = {}
    /\ rec = [f \in DOMAIN units |-> "none"]
    /\ startOutputs = outputs
    /\ writes = [f \in DOMAIN units |-> 0]
    /\ absentAt = 0
    /\ lastMerge = NoMerge
    /\ NoWorkers
    /\ NoJson
    /\ retry_failed = FALSE
    /\ NoSplit

SpecMergeBlank == InitMergeBlank /\ [][NextMerge]_vars

\* ---- one call of the Translation Invoker, on any output of the capability

StartForms == {start_marker, <<LT, "START", GT>>, <<LT, SP, "START", GT>>, <<LT, "START", SP, GT>>}
EndForms == {end_marker, <<LT, "END", GT>>, <<LT, SP, "END", GT>>, <<LT, "END", SP, GT>>}

\* Text without any marker, before, between and after the markers.
Prefixes == {<<>>, <<NL>>, <<"a", NL>>}
Payloads == {<<"a">>, <<NL, "a", NL>>, <<SP, "a", SP, "b", NL>>, <<"a", NL, "b">>,
             <<"START">>, <<GT, "a", LT>>}
Suffixes == {<<>>, <<SP>>, <<NL, "b">>}

WellFormedResponses ==
    {p \o s \o x \o e \o q :
        p \in Prefixes, s \in StartForms, x \in Payloads, e \in EndForms, q \in Suffixes}

InvokerResponses == WellFormedResponses \cup CoordinatorResponses

\* The Coordinator has called the Invoker for the only Unit of its first run.
InitInvoker ==
    /\ units = [f \in {PageDigits(1)} |-> <<"a">>]
    /\ outputs = [f \in DOMAIN units |-> NoFile]
    /\ output_md = NoFile
    /\ pc = "invoke"
    /\ md_files = <<PageDigits(1)>>
    /\ i = 1
    /\ attempt = 0
    /\ stdout = <<>>
    /\ translated_content = None
    /\ translated_count = 0
    /\ skipped_count = 0
    /\ failed_count = 0
    /\ runNo = 1
    /\ exit = "none"
    /\ prevExit = "none"
    /\ lastEvent = "none"
    /\ invocations = 0
    /\ invoked = {PageDigits(1)}
    /\ rec = [f \in DOMAIN units |-> "none"]
    /\ startOutputs = outputs
    /\ writes = [f \in DOMAIN units |-> 0]
    /\ absentAt = 0
    /\ lastMerge = NoMerge
    /\ NoWorkers
    /\ NoJson
    /\ retry_failed = FALSE
    /\ NoSplit

NextInvoker == \E ev \in EventsOver(InvokerResponses) : Attempt(ev)

SpecInvoker == InitInvoker /\ [][NextInvoker]_vars

\* ---- the first attempt of one call, on outputs with missing, blank-filled
\* ---- and repeated markers as well

\* Nothing but whitespace between the markers.
BlankPayloads == {<<>>, <<SP>>, <<NL>>, <<SP, NL, SP>>, <<NL, NL>>}

\* Outputs without a start marker, without an end marker, without both, or
\* with only whitespace between the two.
MalformedResponses ==
    {p \o s \o q : p \in Prefixes, s \in StartForms, q \in Suffixes}
        \cup {p \o e \o q : p \in Prefixes, e \in EndForms, q \in Suffixes}
        \cup {p \o s \o w \o e \o q :
                p \in Prefixes, s \in StartForms, w \in BlankPayloads,
                e \in EndForms, q \in Suffixes}
        \cup {<<>>, <<SP>>, <<"a", NL, "b">>, <<"START", NL, "END">>}

\* Outputs with three markers, each a start or an end marker in the canonical
\* or a variant form, on one line or on lines of their own.
Markers == {start_marker, <<LT, "START", GT>>, end_marker, <<LT, "END", GT>>}
Gaps == {<<NL, "a", NL>>, <<SP, "b", SP>>, <<NL>>}
MultiMarkerResponses ==
    {m1 \o g1 \o m2 \o g2 \o m3 :
        m1 \in Markers, g1 \in Gaps, m2 \in Markers, g2 \in Gaps, m3 \in Markers}

ExtractResponses ==
    WellFormedResponses \cup MalformedResponses \cup MultiMarkerResponses

\* The first pass of the retry loop. What an attempt makes of an output
\* depends on that output alone, so the later passes add no case.
FirstAttempt ==
    /\ attempt = 0
    /\ \E ev \in EventsOver(ExtractResponses) : Attempt(ev)

SpecFirstAttempt == InitInvoker /\ [][FirstAttempt]_vars

\* ---- the split stage, on any markdown file

\* Runs of text between separator lines in the markdown file.
MaxDocSections == 3
\* The largest target_max_chars.
MaxTarget == 3

\* What lies between two separator lines: nothing, whitespace alone, a
\* letter (size 1), an ideograph and a letter (size 3), two lines with an
\* empty line between them (size 3), a line with inline code (size 1).
SectionForms == {<<>>, <<SP>>, <<"a">>, <<"zh", "a">>, <<"a", NL, NL, "zh">>,
                 <<BT, "b", BT, "a", SP>>}
\* Separator lines: the hyphens alone, or with text around them.
SeparatorForms == {<<DASH>>, <<"a", DASH, SP>>}

\* The files of n runs of text with a separator line between each two.
RECURSIVE DocsOf(_)
DocsOf(n) ==
    IF n = 1 THEN SectionForms
    ELSE {d \o <<NL>> \o sep \o <<NL>> \o x :
             d \in DocsOf(n - 1), sep \in SeparatorForms, x \in SectionForms}

Docs == UNION {DocsOf(n) : n \in 1..MaxDocSections}

\* The default target_max_chars (5000), in thousands of letters.
default_max_chars == 5

\* Seven sections of one letter each (a thousand letters, at that scale).
SevenSections ==
    <<"a", NL, DASH, NL, "a", NL, DASH, NL, "a", NL, DASH, NL, "a", NL, DASH, NL,
      "a", NL, DASH, NL, "a", NL, DASH, NL, "a">>

InitSplit ==
    /\ \/ source_md \in Docs /\ target_max_chars \in 0..MaxTarget
       \/ source_md = SevenSections /\ target_max_chars = default_max_chars
    /\ splitPc = "start"
    /\ target_size = 0
    /\ chunks = <<>>
    /\ sections = <<>>
    /\ section_index = 0
    /\ merged_sections = <<>>
    /\ current_merged = <<>>
    /\ current_char_count = 0
    /\ saved = <<>>
    /\ current_sections = <<>>
    /\ units = [f \in {} |-> <<>>]
    /\ outputs = [f \in {} |-> NoFile]
    /\ output_md = NoFile
    /\ pc = "idle"
    /\ md_files = <<>>
    /\ i = 0
    /\ attempt = 0
    /\ stdout = <<>>
    /\ translated_content = None
    /\ translated_count = 0
    /\ skipped_count = 0
    /\ failed_count = 0
    /\ runNo = 0
    /\ exit = "none"
    /\ prevExit = "none"
    /\ lastEvent = "none"
    /\ invocations = 0
    /\ invoked = {}
    /\ rec = [f \in {} |-> "none"]
    /\ startOutputs = outputs
    /\ writes = [f \in {} |-> 0]
    /\ absentAt = 0
    /\ lastMerge = NoMerge
    /\ NoWorkers
    /\ NoJson
    /\ retry_failed = FALSE

NextSplit ==
    \/ SplitRead
    \/ SaveLargeSeparately
    \/ SaveMergedAndRestart
    \/ AddToMerged
    \/ SaveLast

SpecSplit == InitSplit /\ [][NextSplit]_vars

\* ---- the split stage, on sections with letters of several scripts, digits,
\* ---- inline code and code fences

\* Runs of text between separator lines in these files.
MaxWeighSections == 2

\* A Latin letter; an ideograph and a letter; a letter of another script; a
\* letter and a digit; inline code and a letter; a code fence that opens; one
\* that closes; a code block.
WeighForms == {<<"a">>, <<"zh", "a">>, <<"ya">>, <<"a", "1">>,
               <<BT, "b", BT, "a">>,
               <<BT, BT, BT, "a">>, <<"b", BT, BT, BT>>,
               <<BT, BT, BT, SP, "b", "b", SP, BT, BT, BT>>}

RECURSIVE WeighDocsOf(_)
WeighDocsOf(n) ==
    IF n = 1 THEN WeighForms
    ELSE {d \o <<NL, DASH, NL>> \o x : d \in WeighDocsOf(n - 1), x \in WeighForms}

WeighDocs == UNION {WeighDocsOf(n) : n \in 1..MaxWeighSections}

InitWeigh ==
    /\ source_md \in WeighDocs
    /\ target_max_chars \in 0..MaxTarget
    /\ splitPc = "start"
    /\ target_size = 0
    /\ chunks = <<>>
    /\ sections = <<>>
    /\ section_index = 0
    /\ merged_sections = <<>>
    /\ current_merged = <<>>
    /\ current_char_count = 0
    /\ saved = <<>>
    /\ current_sections = <<>>
    /\ units = [f \in {} |-> <<>>]
    /\ outputs = [f \in {} |-> NoFile]
    /\ output_md = NoFile
    /\ pc = "idle"
    /\ md_files = <<>>
    /\ i = 0
    /\ attempt = 0
    /\ stdout = <<>>
    /\ translated_content = None
    /\ translated_count = 0
    /\ skipped_count = 0
    /\ failed_count = 0
    /\ runNo = 0
    /\ exit = "none"
    /\ prevExit = "none"
    /\ lastEvent = "none"
    /\ invocations = 0
    /\ invoked = {}
    /\ rec = [f \in {} |-> "none"]
    /\ startOutputs = outputs
    /\ writes = [f \in {} |-> 0]
    /\ absentAt = 0
    /\ lastMerge = NoMerge
    /\ NoWorkers
    /\ NoJson
    /\ retry_failed = FALSE

SpecWeigh == InitWeigh /\ [][NextSplit]_vars

\* ---- the fallback split by size, on any markdown file

\* Characters of the markdown file.
MaxSizeDoc == 4
\* The largest target_size.
MaxSizeTarget == 3

RECURSIVE TextsUpTo(_)
TextsUpTo(n) ==
    IF n = 0 THEN {<<>>}
    ELSE TextsUpTo(n - 1)
             \cup {Append(t, c) : t \in {x \in TextsUpTo(n - 1) : Len(x) = n - 1},
                                  c \in {"a", SP, NL}}

InitSize ==
    /\ source_md \in TextsUpTo(MaxSizeDoc)
    /\ target_size \in 1..MaxSizeTarget
    /\ chunks = <<>>
    /\ splitPc = "size_start"
    /\ target_max_chars = 0
    /\ sections = <<>>
    /\ section_index = 0
    /\ merged_sections = <<>>
    /\ current_merged = <<>>
    /\ current_char_count = 0
    /\ saved = <<>>
    /\ current_sections = <<>>
    /\ units = [f \in {} |-> <<>>]
    /\ outputs = [f \in {} |-> NoFile]
    /\ output_md = NoFile
    /\ pc = "idle"
    /\ md_files = <<>>
    /\ i = 0
    /\ attempt = 0
    /\ stdout = <<>>
    /\ translated_content = None
    /\ translated_count = 0
    /\ skipped_count = 0
    /\ failed_count = 0
    /\ runNo = 0
    /\ exit = "none"
    /\ prevExit = "none"
    /\ lastEvent = "none"
    /\ invocations = 0
    /\ invoked = {}
    /\ rec = [f \in {} |-> "none"]
    /\ startOutputs = outputs
    /\ writes = [f \in {} |-> 0]
    /\ absentAt = 0
    /\ lastMerge = NoMerge
    /\ NoWorkers
    /\ NoJson
    /\ retry_failed = FALSE

SpecSize == InitSize /\ [][SplitBySize]_vars

\* ---- the slide texts: runs of translate_json_texts on one JSON file

\* def translate_json_texts(..., max_retries=3)
json_max_retries == 3

\* Text items in the JSON file.
MaxItems == 2
\* Runs of translate_json_texts in one behaviour.
MaxJsonRuns == 2

\* The texts of the shapes, as extraction writes them: never blank, with
\* whatever whitespace the shape has around them.
ItemTexts == {<<"a">>, <<"a", NL>>, <<"b">>}

\* What 'claude' may print: a translation between the two markers (two
\* different ones), nothing but whitespace between them, no markers at all,
\* and the end marker ahead of the start marker.
JsonOutputs ==
    {json_start_marker \o <<NL, "zh", NL>> \o json_end_marker,
     <<"ya", NL>> \o json_start_marker \o <<"ya">> \o json_end_marker \o <<NL>>,
     json_start_marker \o <<SP>> \o json_end_marker,
     <<"zh">>,
     json_end_marker \o <<"zh">> \o json_start_marker}

JsonEvents == EventsOver(JsonOutputs)

\* json.dump(texts_data, f) under 'with open(json_file, "w")': open
\* truncates the file, so a dump that does not complete leaves text that
\* json.load rejects.
JsonDump(w, data) ==
    CASE w = "ok" -> [valid |-> TRUE, items |-> data]
      [] w = "open_fails" -> json_file
      [] w = "write_fails" -> [valid |-> FALSE, items |-> <<>>]

\* The item the loop is at.
JsonInLoop == json_run.pc = "loop" /\ json_run.idx <= Len(json_run.texts_data)
text_item == json_run.texts_data[json_run.idx]

\* Lines 191-223: the file is loaded; a file that does not parse ends the run
\* with False, an empty list with True; otherwise the cache is built and the
\* loop starts.
JsonStart ==
    /\ json_run.pc = "idle"
    /\ json_run.runs < MaxJsonRuns
    /\ json_run' =
          IF ~json_file.valid
          THEN [json_run EXCEPT !.runs = @ + 1, !.returned = "False",
                                !.calls = <<>>, !.failed = {}, !.loaded = <<>>,
                                !.texts_data = <<>>]
          ELSE IF json_file.items = <<>>
          THEN [json_run EXCEPT !.runs = @ + 1, !.returned = "True",
                                !.calls = <<>>, !.failed = {}, !.loaded = <<>>,
                                !.texts_data = <<>>]
          ELSE [pc |-> "loop", texts_data |-> json_file.items, idx |-> 1,
                attempt |-> 0,
                translation_cache |-> BuildCache(json_file.items),
                translated_count |-> 0, skipped_count |-> 0, failed_count |-> 0,
                runs |-> json_run.runs + 1,
                calls |-> [k \in 1..Len(json_file.items) |-> 0],
                failed |-> {}, loaded |-> json_file.items,
                returned |-> "none"]
    /\ UNCHANGED <<json_file, argVars, workerVars, splitVars, coordVars, units,
                   outputs, output_md, lastMerge>>

\* Lines 229-239: an item already marked translated, or with a blank text, is
\* passed over; nothing is saved.
JsonSkip ==
    /\ JsonInLoop
    /\ \/ text_item.translated
       \/ Strip(text_item.original_text) = <<>>
    /\ json_run' = [json_run EXCEPT !.skipped_count = @ + 1, !.idx = @ + 1]
    /\ UNCHANGED <<json_file, argVars, workerVars, splitVars, coordVars, units,
                   outputs, output_md, lastMerge>>

\* Lines 244-257: the text has a translation in the cache; the item takes it
\* and the progress is saved.
JsonCacheHit ==
    /\ JsonInLoop
    /\ ~text_item.translated
    /\ Strip(text_item.original_text) # <<>>
    /\ Strip(text_item.original_text) \in DOMAIN json_run.translation_cache
    /\ json_run' =
          [json_run EXCEPT
              !.texts_data[json_run.idx] =
                  TextItem(text_item.original_text, TRUE,
                           json_run.translation_cache[Strip(text_item.original_text)]),
              !.translated_count = @ + 1,
              !.pc = "save"]
    /\ UNCHANGED <<json_file, argVars, workerVars, splitVars, coordVars, units,
                   outputs, output_md, lastMerge>>

\* Lines 260-295: one pass of the attempt loop. A text without the error
\* flag marks the item and enters the cache; the pass that uses up the
\* attempts marks the item as not translated, with an empty text.
JsonAttempt(ev) ==
    /\ JsonInLoop
    /\ ~text_item.translated
    /\ Strip(text_item.original_text) # <<>>
    /\ Strip(text_item.original_text) \notin DOMAIN json_run.translation_cache
    /\ json_run.attempt < json_max_retries
    /\ LET translation_result == translate_text_with_claude(ev)
           translated_text == translation_result.text
           original == Strip(text_item.original_text)
           called == [json_run EXCEPT !.calls[json_run.idx] = @ + 1]
       IN  json_run' =
              IF ~translation_result.is_error /\ Strip(translated_text) # <<>>
              THEN [called EXCEPT
                      !.texts_data[json_run.idx] =
                          TextItem(text_item.original_text, TRUE, translated_text),
                      !.translation_cache =
                          [o \in DOMAIN json_run.translation_cache \cup {original} |->
                              IF o = original THEN Strip(translated_text)
                              ELSE json_run.translation_cache[o]],
                      !.translated_count = @ + 1,
                      !.attempt = 0,
                      !.pc = "save"]
              ELSE IF json_run.attempt + 1 < json_max_retries
              THEN [called EXCEPT !.attempt = @ + 1]
              ELSE [called EXCEPT
                      !.texts_data[json_run.idx] =
                          TextItem(text_item.original_text, FALSE, <<>>),
                      !.failed = @ \cup {json_run.idx},
                      !.failed_count = @ + 1,
                      !.attempt = 0,
                      !.pc = "save"]
    /\ UNCHANGED <<json_file, argVars, workerVars, splitVars, coordVars, units,
                   outputs, output_md, lastMerge>>

\* Lines 251-255 and 298-302: the progress is saved; a failure is a warning
\* and the loop goes on.
JsonSaveProgress ==
    /\ json_run.pc = "save"
    /\ \E w \in WriteOutcomes : json_file' = JsonDump(w, json_run.texts_data)
    /\ json_run' = [json_run EXCEPT !.pc = "loop", !.idx = @ + 1]
    /\ UNCHANGED <<argVars, workerVars, splitVars, coordVars, units,
                   outputs, output_md, lastMerge>>

\* Lines 304-330: the final save; when it fails the run returns False.
JsonFinish ==
    /\ json_run.pc = "loop"
    /\ json_run.idx > Len(json_run.texts_data)
    /\ \E w \in WriteOutcomes :
          /\ json_file' = JsonDump(w, json_run.texts_data)
          /\ json_run' = [json_run EXCEPT
                             !.pc = "idle",
                             !.returned = IF w = "ok" THEN "True" ELSE "False"]
    /\ UNCHANGED <<argVars, workerVars, splitVars, coordVars, units,
                   outputs, output_md, lastMerge>>

\* The run is stopped from outside (killed, or Ctrl-C: KeyboardInterrupt is
\* not an Exception). Stopped inside one of the 'with open(json_file, "w")'
\* blocks, it leaves the file cut short.
JsonInterrupt ==
    /\ json_run.pc \in {"loop", "save"}
    /\ \/ UNCHANGED json_file
       \/ /\ \/ json_run.pc = "save"
             \/ json_run.idx > Len(json_run.texts_data)
          /\ json_file' = JsonDump("write_fails", json_run.texts_data)
    /\ json_run' = [json_run EXCEPT !.pc = "idle", !.returned = "interrupted"]
    /\ UNCHANGED <<argVars, workerVars, splitVars, coordVars, units,
                   outputs, output_md, lastMerge>>

\* A freshly extracted file: every item untranslated, its translation empty.
InitJson ==
    /\ \E n \in 0..MaxItems :
          json_file \in
              {[valid |-> TRUE, items |-> it] :
                  it \in [1..n -> {TextItem(o, FALSE, <<>>) : o \in ItemTexts}]}
    /\ json_run = IdleJsonRun
    /\ units = [f \in {} |-> <<>>]
    /\ outputs = [f \in {} |-> NoFile]
    /\ output_md = NoFile
    /\ pc = "idle"
    /\ md_files = <<>>
    /\ i = 0
    /\ attempt = 0
    /\ stdout = <<>>
    /\ translated_content = None
    /\ translated_count = 0
    /\ skipped_count = 0
    /\ failed_count = 0
    /\ runNo = 0
    /\ exit = "none"
    /\ prevExit = "none"
    /\ lastEvent = "none"
    /\ invocations = 0
    /\ invoked = {}
    /\ rec = [f \in {} |-> "none"]
    /\ startOutputs = outputs
    /\ writes = [f \in {} |-> 0]
    /\ absentAt = 0
    /\ lastMerge = NoMerge
    /\ NoWorkers
    /\ retry_failed = FALSE
    /\ NoSplit

NextJson ==
    \/ JsonStart
    \/ JsonSkip
    \/ JsonCacheHit
    \/ \E ev \in JsonEvents : JsonAttempt(ev)
    \/ JsonSaveProgress
    \/ JsonFinish
    \/ JsonInterrupt

SpecJson == InitJson /\ [][NextJson]_vars

\* ------------------------------------------------------------------ claims

\* What this run has recorded as a failure.
FailedUnits == {f \in Names : rec[f] \in {"failed_read", "failed_translate", "failed_save"}}

\* C1 (as the specification states it): when the merge stage runs on a
\* directory that holds fewer Output Units than Units, it aborts and output.md
\* is neither created nor changed. merge_markdown_files never counts the
\* Units, so it writes output.md from whatever output files there are.
C1_CompletenessGate ==
    (lastMerge.ran /\ lastMerge.nOutputs < lastMerge.nUnits)
        => (lastMerge.aborted /\ ~lastMerge.wrote /\ output_md = NoFile)

C3_NoOutputOnFailure ==
    /\ \A f \in Names : rec[f] = "failed_translate" => outputs[f] = NoFile /\ writes[f] = 0
    /\ pc = "failed" => translated_content = None /\ outputs[md_files[i]] = NoFile
    /\ failed_count = Cardinality(FailedUnits)

\* C3's case: a completed run that recorded a translation failure.
C3_Witness ==
    /\ exit = "tally"
    /\ \E f \in Names : rec[f] = "failed_translate"
    /\ \E f \in Names : rec[f] = "translated"

\* C4: across default-mode runs an Output Unit is written at most once: a
\* step never changes or removes an Output Unit that exists, never calls the
\* Invoker for its Unit, and no output file is opened for writing twice.
C4_WrittenAtMostOnce ==
    /\ [](\A f \in Names : writes[f] <= 1)
    /\ [][\A f \in Names :
            outputs[f].exists =>
               /\ outputs'[f] = outputs[f]
               /\ writes'[f] = writes[f]
               /\ ~(pc' = "invoke" /\ md_files'[i'] = f)]_vars

\* C4's case: a later run has gone past an Output Unit an earlier run wrote.
C4_Witness ==
    /\ runNo = 2
    /\ \E f \in Names : writes[f] = 1 /\ rec[f] = "skipped" /\ outputs[f] = File(<<"b">>)
    /\ \E f \in Names : rec[f] = "translated"

\* The place of file f's content in output.md (-1: not there).
PlaceInMerged(f) == Find(output_md.content, <<ToString(DigitsValue(f))>>)

\* C5: the merge processes the output files by ascending number, whatever
\* the listing order and the widths of the names, and the content of a file
\* with a lower number precedes that of one with a higher number in output.md.
C5_NumericOrder ==
    lastMerge.ran /\ ~lastMerge.aborted =>
        /\ {lastMerge.order[k] : k \in 1..Len(lastMerge.order)} = OutputFiles
        /\ \A p, q \in 1..Len(lastMerge.order) :
              p < q => DigitsValue(lastMerge.order[p]) <= DigitsValue(lastMerge.order[q])
        /\ \A f, g \in OutputFiles \ lastMerge.unreadable :
              DigitsValue(f) < DigitsValue(g) =>
                 /\ PlaceInMerged(f) # -1
                 /\ PlaceInMerged(f) < PlaceInMerged(g)

\* C5's case: page2 and page10 merged, and three padded names merged.
C5_Witness ==
    /\ lastMerge.ran /\ ~lastMerge.aborted /\ lastMerge.unreadable = {}
    /\ OutputFiles = {<<2>>, <<1, 0>>, <<0, 0, 0, 1>>}
    /\ lastMerge.order = << <<0, 0, 0, 1>>, <<2>>, <<1, 0>> >>
    /\ PlaceInMerged(<<2>>) < PlaceInMerged(<<1, 0>>)

\* C6: one call of the Invoker starts the capability at most max_retries
\* times; while it is in its loop every attempt so far has failed and attempts
\* remain; it returns a text only straight after the attempt that produced it
\* (the extraction of that attempt's output, never the raw output), and it
\* returns failure (None) only once max_retries attempts have failed.
C6_BoundedRetry ==
    /\ invocations <= max_retries
    /\ pc = "invoke" => invocations = attempt /\ attempt < max_retries
    /\ pc = "save" =>
          /\ invocations = attempt + 1
          /\ lastEvent = "output"
          /\ translated_content.some
          /\ translated_content.val # <<>>
          /\ translated_content.val # stdout
          /\ translated_content = ParseResponse(stdout)
    /\ pc = "failed" =>
          /\ invocations = max_retries
          /\ translated_content = None
          /\ lastEvent = "output" => ~ParseResponse(stdout).some

\* C6's case: two failed attempts, then the third and last one succeeds.
C6_Witness ==
    /\ pc = "save"
    /\ attempt = max_retries - 1
    /\ invocations = max_retries
    /\ translated_content = Some(<<"b">>)

\* C7 (as the specification states it): once an attempt finds the 'claude'
\* binary absent, the Invoker makes no further attempt and has returned
\* failure. The FileNotFoundError is caught inside
\* run_claude_with_realtime_output and retried like any error.
C7_ShortCircuit ==
    lastEvent = "notfound" => pc = "failed" /\ translated_content = None

\* C8 (as the specification states it): once the tool is found absent while
\* a Unit is processed, the run ends without its tally and no later Unit is
\* processed in it.
C8_AbsentIsFatal ==
    absentAt # 0 =>
        /\ exit # "tally"
        /\ \A j \in (absentAt + 1)..Len(md_files) :
              rec[md_files[j]] = "none" /\ md_files[j] \notin invoked

\* C9 (as the specification states it): a run that has entered the loop
\* ends only by printing the tally, with every Unit that had no Output Unit
\* at its start processed. The write of a passed-through Unit is outside any
\* try, so an exception in it ends the run there.
C9_FailureIsolation ==
    (runNo >= 1 /\ pc = "idle" /\ exit # "error") =>
        /\ exit = "tally"
        /\ \A f \in Names : ~startOutputs[f].exists => rec[f] # "none"

\* C10: for an output prefix + START + X + END + suffix, the markers in any
\* canonical or variant form, prefix, X and suffix free of markers and X not
\* blank, the attempt succeeds and the Invoker returns X trimmed.
C10_ExtractionCorrect ==
    \A p \in Prefixes, s \in StartForms, x \in Payloads, e \in EndForms, q \in Suffixes :
        (lastEvent = "output" /\ stdout = p \o s \o x \o e \o q /\ Strip(x) # <<>>)
            => pc = "save" /\ translated_content = Some(Strip(x))

\* C10's case: variant markers of two different forms around a padded,
\* two-line payload, with text before and after.
C10_Witness ==
    /\ lastEvent = "output"
    /\ stdout = <<"a", NL>> \o <<LT, "START", SP, GT>> \o <<SP, "a", SP, "b", NL>>
                   \o <<LT, SP, "END", GT>> \o <<NL, "b">>
    /\ translated_content = Some(<<"a", SP, "b">>)
    /\ pc = "save"

\* Pattern pat lies in t at 0-based index k.
OccursAt(t, pat, k) ==
    /\ k >= 0 /\ k + Len(pat) <= Len(t)
    /\ \A j \in 1..Len(pat) : t[k + j] = pat[j]

\* The indexes just after a start marker of any form, and those at which an
\* end marker of any form begins.
StartEnds(t) == {k \in 0..Len(t) : \E s \in StartForms : OccursAt(t, s, k - Len(s))}
EndBegins(t) == {k \in 0..Len(t) : \E e \in EndForms : OccursAt(t, e, k)}

\* v is a piece of t that lies after a start marker and before an end marker.
BetweenMarkers(t, v) ==
    \E a \in StartEnds(t), b \in EndBegins(t) :
        \E k \in a..(b - Len(v)) : OccursAt(t, v, k)

\* C11: the Invoker returns failure or a non-empty, trimmed text taken from
\* between a start and an end marker of the output; an output without a
\* start marker, without an end marker, or with only whitespace between the
\* two makes the attempt a failed one.
C11_NeverEmptyResult ==
    /\ translated_content.some =>
          /\ translated_content.val # <<>>
          /\ Strip(translated_content.val) = translated_content.val
          /\ lastEvent = "output"
          /\ BetweenMarkers(stdout, translated_content.val)
    /\ pc = "save" => translated_content.some
    /\ (lastEvent = "output" /\ (StartEnds(stdout) = {} \/ EndBegins(stdout) = {})) =>
          translated_content = None /\ pc # "save" /\ attempt = invocations
    /\ \A p \in Prefixes, s \in StartForms, w \in BlankPayloads, e \in EndForms,
          q \in Suffixes :
          (lastEvent = "output" /\ stdout = p \o s \o w \o e \o q) =>
             translated_content = None /\ pc # "save" /\ attempt = invocations

\* C11's case: an output with whitespace and line breaks alone between its
\* markers has failed the attempt.
C11_Witness ==
    /\ lastEvent = "output"
    /\ stdout = <<"a", NL>> \o start_marker \o <<SP, NL, SP>> \o <<LT, "END", GT>>
    /\ translated_content = None
    /\ pc = "invoke" /\ attempt = 1

\* The indexes at which a start marker of any form begins, and the index
\* just after the start marker that begins at k.
StartBegins(t) == {k \in 0..Len(t) : \E s \in StartForms : OccursAt(t, s, k)}
StartEndOf(t, k) == k + Len(CHOOSE s \in StartForms : OccursAt(t, s, k))

\* The start markers of t that an end marker follows.
PairedStarts(t) ==
    {k \in StartBegins(t) : \E b \in EndBegins(t) : b >= StartEndOf(t, k)}

\* The text between the first complete marker pair of t: from the earliest
\* start marker that an end marker follows to the first end marker after it.
FirstPairContent(t) ==
    LET a == StartEndOf(t, Min(PairedStarts(t)))
        b == Min({k \in EndBegins(t) : k >= a})
    IN  Slice(t, a, b)

\* C19 (as the specification states it): from an output with several start
\* or end markers the Invoker returns the text between the first complete
\* marker pair, trimmed. extract_content_between_markers pairs the first
\* canonical start marker (a variant only when no canonical one occurs) with
\* the first canonical end marker wherever it lies.
C19_FirstCompletePair ==
    (/\ lastEvent = "output"
     /\ PairedStarts(stdout) # {}
     /\ Strip(FirstPairContent(stdout)) # <<>>)
        => translated_content = Some(Strip(FirstPairContent(stdout)))

\* The lines (numbered from 1) that hold a start marker, and those that hold
\* an end marker, of any form.
StartLines(ls) == {n \in 1..Len(ls) : \E s \in StartForms : Contains(ls[n], s)}
EndLines(ls) == {n \in 1..Len(ls) : \E e \in EndForms : Contains(ls[n], e)}

\* The lines strictly between the boundary lines, joined and trimmed: the end
\* boundary is the first line with an end marker, the start boundary the
\* last line with a start marker up to and including that line. Empty when
\* a boundary is missing or no line lies between the two.
InteriorLines(t) ==
    LET ls == Split(t)
        E == EndLines(ls)
        S == {n \in StartLines(ls) : E # {} /\ n <= Min(E)}
    IN  IF S = {} \/ Max(S) >= Min(E) THEN <<>>
        ELSE Strip(Join(SubSeq(ls, Max(S) + 1, Min(E) - 1)))

\* C20: when the output holds a start and an end marker and the extraction
\* by position yields nothing, the attempt succeeds with the trimmed lines
\* strictly between a line holding a start marker and a line holding an end
\* marker if they are not empty, and otherwise fails and is retried.
C20_EmergencyExtraction ==
    (/\ lastEvent = "output"
     /\ StartBegins(stdout) # {} /\ EndBegins(stdout) # {}
     /\ ~Truthy(extract_content_between_markers(Strip(stdout))))
        => IF InteriorLines(Strip(stdout)) # <<>>
           THEN /\ pc = "save"
                /\ translated_content = Some(InteriorLines(Strip(stdout)))
                /\ attempt = invocations - 1
           ELSE /\ translated_content = None
                /\ attempt = invocations
                /\ pc = IF attempt < max_retries THEN "invoke" ELSE "failed"

\* C20's case: the canonical start marker comes after the end marker, so the
\* extraction by position finds nothing, and the line scan recovers the text
\* between the variant start marker's line and the end marker's line.
C20_Witness ==
    /\ lastEvent = "output"
    /\ stdout = <<LT, "START", GT>> \o <<NL, "a", NL>> \o <<LT, "END", GT>>
                   \o <<NL>> \o start_marker
    /\ pc = "save"
    /\ translated_content = Some(<<"a">>)

\* The sizes of the sections numbered idxs, added up.
RECURSIVE SumSizes(_)
SumSizes(idxs) ==
    IF Len(idxs) = 0 THEN 0
    ELSE estimate_combined_char_count(sections[Head(idxs)]) + SumSizes(Tail(idxs))

\* C12: every unit the splitter saves has an accumulated size, the sum of
\* the sizes of its sections, of at most target_max_chars, or is one section
\* whose own size exceeds target_max_chars; the pending buffer never exceeds
\* target_max_chars; and the page files are the saved units.
C12_SizeInvariant ==
    /\ Len(saved) = Len(merged_sections)
    /\ \A n \in 1..Len(saved) :
          /\ saved[n].sections # <<>>
          /\ saved[n].count = SumSizes(saved[n].sections)
          /\ \/ saved[n].count <= target_max_chars
             \/ /\ Len(saved[n].sections) = 1
                /\ estimate_combined_char_count(sections[saved[n].sections[1]])
                       > target_max_chars
    /\ current_char_count = SumSizes(current_sections)
    /\ current_char_count <= target_max_chars
    /\ splitPc = "done" =>
          /\ Cardinality(DOMAIN units) = Len(merged_sections)
          /\ \A n \in 1..Len(merged_sections) : units[PageDigits(n)] = merged_sections[n]

\* C12's case: the split has ended with a unit of two sections that fills
\* target_max_chars exactly and a unit of one oversized section.
C12_Witness ==
    /\ splitPc = "done"
    /\ target_max_chars = 2
    /\ \E n \in 1..Len(saved) : Len(saved[n].sections) = 2 /\ saved[n].count = 2
    /\ \E n \in 1..Len(saved) : Len(saved[n].sections) = 1 /\ saved[n].count = 3

\* C13: the step that meets a section whose own size exceeds
\* target_max_chars saves the pending buffer, if it holds anything, as a unit
\* and the section, whole, as the next unit, and leaves the pending buffer
\* empty; in the end the section is a page file by itself.
C13_OversizedAlone ==
    /\ [][(SplitInLoop /\ section_char_count > target_max_chars) =>
             /\ merged_sections' =
                   merged_sections \o Pending \o <<sections[section_index]>>
             /\ current_merged' = <<>>
             /\ current_char_count' = 0
             /\ section_index' = section_index + 1]_vars
    /\ [](splitPc = "done" =>
             \A k \in 1..Len(sections) :
                estimate_combined_char_count(sections[k]) > target_max_chars =>
                   \E n \in 1..Len(saved) :
                      /\ saved[n].sections = <<k>>
                      /\ units[PageDigits(n)] = sections[k])

\* C13's case: a section of size 3 under target_max_chars = 2 has become
\* page0002.md by itself, straight after the pending buffer became page0001.md.
C13_Witness ==
    /\ splitPc = "done"
    /\ target_max_chars = 2
    /\ Len(saved) >= 2
    /\ saved[1] = [sections |-> <<1>>, count |-> 1]
    /\ saved[2] = [sections |-> <<2>>, count |-> 3]
    /\ units[PageDigits(2)] = <<"a", NL, NL, "zh">>
    /\ current_merged = <<>>

\* Texts joined by a blank line.
RECURSIVE JoinBlank(_)
JoinBlank(texts) ==
    IF Len(texts) = 0 THEN <<>>
    ELSE IF Len(texts) = 1 THEN texts[1]
    ELSE texts[1] \o <<NL, NL>> \o JoinBlank(Tail(texts))

\* The sections numbered idxs.
SectionsAt(idxs) == [n \in 1..Len(idxs) |-> sections[idxs[n]]]

\* The section numbers of the saved units, one after the other.
RECURSIVE SavedOrder(_)
SavedOrder(sv) ==
    IF Len(sv) = 0 THEN <<>> ELSE Head(sv).sections \o SavedOrder(Tail(sv))

\* A text without its whitespace; the lines of a text that are not separator
\* lines, one after the other.
NonSpace(t) == SelectSeq(t, LAMBDA c : ~IsSpace(c))
RECURSIVE TextLines(_)
TextLines(lines) ==
    IF Len(lines) = 0 THEN <<>>
    ELSE (IF SeparatorLine(Head(lines)) THEN <<>> ELSE Head(lines))
             \o TextLines(Tail(lines))

\* C14: when the split has ended the page files are numbered 1..N without
\* gaps and none is empty; each is the sections of one unit joined by a
\* blank line; the units hold every non-empty section of the source exactly
\* once, in source order; and the units joined in order give the source's
\* sections joined in order, which is the source without its separator lines
\* up to whitespace.
C14_RoundTrip ==
    splitPc = "done" =>
        /\ DOMAIN units = {PageDigits(n) : n \in 1..Len(saved)}
        /\ \A f \in DOMAIN units : Strip(units[f]) # <<>> /\ Strip(units[f]) = units[f]
        /\ \A n \in 1..Len(saved) :
              units[PageDigits(n)] = JoinBlank(SectionsAt(saved[n].sections))
        /\ SavedOrder(saved) = [k \in 1..Len(sections) |-> k]
        /\ \A k \in 1..Len(sections) :
              Strip(sections[k]) = sections[k] /\ sections[k] # <<>>
                 /\ ~Contains(sections[k], <<DASH>>)
        /\ JoinBlank([n \in 1..Len(saved) |-> units[PageDigits(n)]]) = JoinBlank(sections)
        /\ NonSpace(JoinBlank(sections)) = NonSpace(TextLines(Split(source_md)))

\* C14's case: three sections, the last with an empty line of its own, have
\* gone into two units, the first of them holding two sections.
C14_Witness ==
    /\ splitPc = "done"
    /\ Len(sections) = 3
    /\ sections[3] = <<"a", NL, NL, "zh">>
    /\ Len(saved) = 2
    /\ saved[1].sections = <<1, 2>>
    /\ units[PageDigits(1)] = <<"a", NL, NL, "a">>
    /\ units[PageDigits(2)] = sections[3]

\* C15 (as the specification states it): when the fallback split has ended,
\* every page file is non-empty, the page files are numbered 1..N in source
\* order, and their texts joined in order by a newline are the source. A
\* chunk that holds one empty line is written as an empty page file.
C15_SizeSplit ==
    splitPc = "done" /\ target_size > 0 =>
        /\ DOMAIN units = {PageDigits(n) : n \in 1..Len(chunks)}
        /\ \A f \in DOMAIN units : units[f] # <<>>
        /\ Join([n \in 1..Len(chunks) |-> units[PageDigits(n)]]) = source_md

\* The texts the Invoker can return in the Coordinator's runs.
Translations == {ParseResponse(r).val : r \in {x \in CoordinatorResponses : ParseResponse(x).some}}

\* File o is a complete Output Unit of Unit f: a blank file when the Unit is
\* blank, a whole translation otherwise.
CompleteFor(f, o) ==
    /\ o.exists
    /\ IF Len(Strip(units[f])) < 1 THEN Strip(o.content) = <<>>
       ELSE o.content \in Translations

\* C16 (as the specification states it): a run started after an interrupted
\* one skips only Units whose Output Unit is complete, and when it ends with
\* no failure every Unit has a complete Output Unit. A run stopped between
\* open() and the end of the write leaves a truncated output file, and the
\* next run takes the file's existence for a finished translation.
C16_RestartSafe ==
    (runNo >= 2 /\ prevExit = "interrupted") =>
        /\ \A f \in Names : rec[f] = "skipped" => CompleteFor(f, startOutputs[f])
        /\ (exit = "tally" /\ failed_count = 0) =>
              \A f \in Names : CompleteFor(f, outputs[f])

\* C17 (as the specification states it): once the runs on one directory are
\* all over, every output file that exists holds the whole text of one
\* successful call of the Invoker for its own Unit (the Unit itself, for a
\* blank Unit). Two runs that have both opened the same output file write
\* one over the other, and the shorter text written last leaves the tail of
\* the longer one behind it.
C17_NoCorruption ==
    (\A p \in Workers : workers[p].pc = "done") =>
        \A f \in Names :
            outputs[f].exists =>
                IF Len(Strip(units[f])) < 1 THEN outputs[f].content = units[f]
                ELSE outputs[f].content \in produced[f]

\* C18: the Units are not touched after the split stage. No step of a
\* Coordinator run, default or --retry-failed, and no step of the Merger
\* changes the set of Units or the content of one; a step of the
\* Coordinator's loop changes no file but the output file of the Unit it is
\* at; and no name the Coordinator or the Merger writes to is a name glob
\* takes for a Unit.
C18_UnitsImmutable ==
    /\ [][/\ units' = units
          /\ pc # "idle" =>
                /\ output_md' = output_md
                /\ \A f \in Names \ (IF InLoop \/ pc \in {"invoke", "save", "failed"}
                                        THEN {md_files[i]} ELSE {}) :
                      outputs'[f] = outputs[f]]_vars
    /\ [](\A f \in Names :
             /\ MatchesPageGlob(unit_filename(f))
             /\ ~MatchesPageGlob(output_filename(f))
             /\ ~MatchesPageGlob(merged_filename))

\* A --retry-failed run has removed an output file and written its
\* translation again, the Merger has written output.md, and the Unit is as
\* the split stage left it.
C18_Witness ==
    /\ retry_failed
    /\ lastMerge.ran /\ lastMerge.wrote
    /\ \E f \in Names :
          /\ startOutputs[f].exists
          /\ rec[f] = "translated"
          /\ outputs[f].exists
          /\ units[f] = <<"a">>

\* C21: the greedy merge rule of the Unit Splitter. A section that is not
\* oversized joins the pending buffer exactly when the buffer's size plus
\* its own is at most target_max_chars (equal included), and nothing is
\* saved; otherwise the pending buffer is saved as it stands and the section
\* starts the next one. Seven sections of size 1 with maximum 5 (1000 and
\* 5000 in the source's scale) end as units of sizes 5 and 2.
C21_GreedyMerge ==
    /\ [][(SplitInLoop /\ section_char_count <= target_max_chars) =>
             IF potential_count <= target_max_chars
             THEN /\ current_sections' = Append(current_sections, section_index)
                  /\ current_char_count' = potential_count
                  /\ saved' = saved
                  /\ merged_sections' = merged_sections
             ELSE /\ saved' = Append(saved, [sections |-> current_sections,
                                             count |-> current_char_count])
                  /\ merged_sections' = Append(merged_sections, current_merged)
                  /\ current_sections' = <<section_index>>
                  /\ current_char_count' = section_char_count]_vars
    /\ []((splitPc = "done" /\ source_md = SevenSections
              /\ target_max_chars = default_max_chars) =>
             /\ Len(saved) = 2
             /\ saved[1].count = 5 /\ saved[1].sections = <<1, 2, 3, 4, 5>>
             /\ saved[2].count = 2 /\ saved[2].sections = <<6, 7>>)

\* The seven sections are split, and a unit of exactly the maximum was kept
\* whole: the fifth section joined a buffer of size 4.
C21_Witness ==
    /\ splitPc = "done"
    /\ source_md = SevenSections
    /\ Len(saved) = 2
    /\ saved[1].count = target_max_chars
    /\ Len(units[PageDigits(1)]) > Len(units[PageDigits(2)])

\* How many places of a text hold one of the tokens cs.
CountOf(t, cs) == Cardinality({k \in 1..Len(t) : t[k] \in cs})

\* The sum of count_characters over the sections idxs.
RECURSIVE SumCounts(_)
SumCounts(idxs) ==
    IF idxs = <<>> THEN 0
    ELSE count_characters(sections[Head(idxs)]) + SumCounts(Tail(idxs))

SmallAtStart ==
    {f \in Names : startOutputs[f].exists
                      /\ getsize(startOutputs[f].content) < retry_size_limit}
LargeAtStart ==
    {f \in Names : startOutputs[f].exists
                      /\ getsize(startOutputs[f].content) >= retry_size_limit}

\* C23 (as the specification states it): a --retry-failed run first removes
\* every output file of less than 50 bytes and leaves every other as it is;
\* in the pass that follows, every Unit whose output file was below the limit
\* is invoked, or passed through if blank, and no Unit whose output file was
\* kept is invoked. A removal that raises is passed over in silence, and the
\* pass then skips the Unit.
C23_RetryFailed ==
    /\ [][(pc = "idle" /\ pc' = "loop" /\ retry_failed') =>
             \A f \in Names :
                IF outputs[f].exists /\ getsize(outputs[f].content) < retry_size_limit
                THEN ~outputs'[f].exists
                ELSE outputs'[f] = outputs[f]]_vars
    /\ []((retry_failed /\ exit = "tally") =>
             /\ \A f \in SmallAtStart :
                   IF Len(Strip(units[f])) < 1 THEN rec[f] = "passed_through"
                   ELSE f \in invoked
             /\ \A f \in LargeAtStart :
                   f \notin invoked /\ rec[f] = "skipped" /\ outputs[f] = startOutputs[f])

RECURSIVE TrimmedContents(_)
TrimmedContents(files) ==
    IF files = <<>> THEN <<>>
    ELSE (IF Strip(outputs[Head(files)].content) = <<>> THEN <<>>
          ELSE <<Strip(outputs[Head(files)].content)>>)
             \o TrimmedContents(Tail(files))

\* C25 (as the specification states it): when every Unit has its output file
\* and the merge has not aborted, output.md is, but for the blank line the
\* loop leaves at its end, the trimmed contents of the output files in the
\* order of their numbers with a blank line between them; a blank file adds
\* nothing and does not stop the merge, and no other file is left out. A file
\* that cannot be read is passed over and the merge goes on.
C25_MergedDocument ==
    (/\ lastMerge.ran /\ ~lastMerge.aborted
     /\ Names # {}
     /\ \A f \in Names : outputs[f].exists) =>
        /\ Strip(output_md.content) =
              JoinBlank(TrimmedContents(SortByKey(SortedFiles(Names))))
        /\ \A f \in Names :
              Strip(outputs[f].content) # <<>> => PlaceInMerged(f) # -1

\* C26 (as the specification states it): a run of the translate stage that
\* ends on a configuration error (no directory, no config.txt, no Unit) has
\* called the capability for no Unit and has left every output file as it
\* was; a run of the merge stage that ends so has not written output.md.
\* With --retry-failed the small output files are removed before the Units
\* are looked for.
C26_ConfigFatal ==
    /\ [][(runNo' = runNo + 1 /\ exit' = "error") =>
             /\ outputs' = outputs
             /\ invoked' = {} /\ invocations' = 0]_vars
    /\ [][(~lastMerge.ran /\ lastMerge'.ran /\ lastMerge'.aborted /\ ~lastMerge'.wrote) =>
             output_md' = output_md]_vars

\* The Units a run has to translate: not blank, and without an output file
\* as the run starts.
NeedsTranslation(f) == ~startOutputs[f].exists /\ Len(Strip(units[f])) >= 1

\* C27 (as the specification states it): the Units are processed one at a
\* time by ascending number. While the Invoker works on a Unit or its result
\* is being saved, every Unit of a lower number that needs translation in
\* the run is done with, and none of a higher number has been touched.
\* md_files.sort() compares the names as strings, so page10000.md comes
\* before page9999.md.
C27_SequentialOrder ==
    pc \in {"invoke", "save", "failed"} =>
        \A f \in Names \ {md_files[i]} :
            NeedsTranslation(f) =>
                IF DigitsValue(f) < DigitsValue(md_files[i])
                THEN rec[f] \in {"translated", "failed_read", "failed_translate",
                                 "failed_save"}
                ELSE rec[f] = "none" /\ f \notin invoked

\* The Units the loop has been through in this run.
Processed == {f \in Names : rec[f] # "none"}

\* C28: the tally of a run. Each Unit the loop has been through has added one
\* to exactly one of translated, skipped and failed, so the three add up to
\* the number of Units processed so far, and to the total when the tally is
\* printed; translated counts the Units whose output file this run wrote
\* whole from what the Invoker returned.
C28_Tally ==
    /\ translated_count = Cardinality({f \in Names : rec[f] = "translated"})
    /\ skipped_count = Cardinality({f \in Names : rec[f] \in {"skipped", "passed_through"}})
    /\ failed_count = Cardinality(FailedUnits)
    /\ translated_count + skipped_count + failed_count = Cardinality(Processed)
    /\ pc # "idle" =>
          /\ Processed = {md_files[k] : k \in 1..(i - 1)}
          /\ translated_count + skipped_count + failed_count = i - 1
    /\ (pc = "idle" /\ exit = "tally") =>
          translated_count + skipped_count + failed_count = Len(md_files)
              /\ Len(md_files) = Cardinality(Names)
    /\ \A f \in Names :
          rec[f] = "translated" =>
             /\ f \in invoked
             /\ ~startOutputs[f].exists
             /\ outputs[f].exists
             /\ outputs[f].content \in Translations

\* The tally of a run over two Units: one translated, one failed.
C28_Witness ==
    /\ pc = "idle" /\ exit = "tally"
    /\ Len(md_files) = 2
    /\ translated_count = 1 /\ failed_count = 1 /\ skipped_count = 0
    /\ \E f \in Names : rec[f] = "translated" /\ outputs[f] = File(<<"a">>)

\* C29 (as the specification states it): when a default-mode run prints its
\* tally, the Units without an output file are exactly those the run counted
\* as failed; a failure to read the Unit or to save its translation leaves
\* no file. A write that raises after open() has created the file leaves it
\* there, empty or cut short, and the Unit is counted as failed.
C29_FailedIffNoOutput ==
    (pc = "idle" /\ exit = "tally" /\ ~retry_failed) =>
        \A f \in Names : ~outputs[f].exists <=> f \in FailedUnits

\* The items as the program holds them, and as the file holds them.
ItemsHeld == {json_run.texts_data[k] : k \in DOMAIN json_run.texts_data}
ItemsStored == {json_file.items[k] : k \in DOMAIN json_file.items}

\* An item is marked translated only with a text that is not blank.
MarkedHasText ==
    \A item \in ItemsHeld \cup ItemsStored :
        item.translated => Strip(item.translated_text) # <<>>

\* A step that invokes 'claude' for an item does so for an item that is not
\* marked translated, in the file the run loaded and in the run's own data.
NotSentAgain ==
    \A k \in DOMAIN json_run.calls :
        (/\ json_run'.runs = json_run.runs
         /\ json_run'.calls[k] > json_run.calls[k])
            => /\ ~json_run.loaded[k].translated
               /\ ~json_run.texts_data[k].translated

\* A step leaves an item that is marked translated as it is: in the run's
\* data while the run lasts, and in the file.
MarkedKeptInRun ==
    \A k \in DOMAIN json_run.texts_data :
        (json_run.texts_data[k].translated /\ json_run'.runs = json_run.runs)
            => json_run'.texts_data[k] = json_run.texts_data[k]

MarkedKeptInFile ==
    \A k \in DOMAIN json_file.items :
        json_file.items[k].translated
            => /\ k \in DOMAIN json_file'.items
               /\ json_file'.items[k] = json_file.items[k]

\* An item whose attempts all failed in this run is held as not translated,
\* with an empty text, and is stored so when the run has returned True.
FailedLeftEmpty ==
    \A k \in json_run.failed :
        /\ json_run.texts_data[k] =
              TextItem(json_run.texts_data[k].original_text, FALSE, <<>>)
        /\ (json_run.pc = "idle" /\ json_run.returned = "True")
              => json_file.items[k] = json_run.texts_data[k]

\* No item has more than max_retries invocations in one run.
CallsBounded ==
    \A k \in DOMAIN json_run.calls : json_run.calls[k] <= json_max_retries

\* C30 without the part about the file keeping what it holds: the four
\* statements about the items, over every run and every way a save can end.
C30_ItemsInRun ==
    /\ [](MarkedHasText /\ FailedLeftEmpty /\ CallsBounded)
    /\ [][NotSentAgain /\ MarkedKeptInRun]_vars

\* C30 (as the specification states it): from a freshly extracted JSON file,
\* over any number of runs of translate_json_texts, an item is marked
\* translated only with a translated_text that is not blank; an item marked
\* translated is not sent to 'claude' again and its translated_text does not
\* change; an item whose attempts all failed is left not translated with an
\* empty translated_text; and no item has more than max_retries invocations
\* in one run. The file is rewritten in place after every item, so a save
\* that does not complete takes the stored translations with it.
C30_Resumable ==
    /\ [](MarkedHasText /\ FailedLeftEmpty /\ CallsBounded)
    /\ [][NotSentAgain /\ MarkedKeptInRun /\ MarkedKeptInFile]_vars

\* A second run on a file in which the first stored a translation and a
\* failure: it has passed over the translated item and is at the other one.
C30_SecondRun ==
    /\ json_run.runs = 2
    /\ json_run.pc = "loop"
    /\ Len(json_run.texts_data) = 2
    /\ json_run.loaded[1].translated
    /\ json_run.loaded[2] = TextItem(<<"b">>, FALSE, <<>>)
    /\ json_run.skipped_count = 1
    /\ json_run.idx = 2
    /\ json_run.calls = <<0, 2>>
====
